---- MODULE Spec2Model ----
(***************************************************************************)
(* The MPLookup React component (src/src/components/MPLookup.tsx): the MP   *)
(* search session.  A JavaScript string is a sequence of characters; a      *)
(* character is a one-character TLA+ string, except the characters TLA+     *)
(* strings cannot hold, which are named tokens ("EMDASH" is U+2014).        *)
(* A nullable value (MP | null) is a sequence of length 0 or 1.             *)
(***************************************************************************)
EXTENDS FiniteSets, Integers, Sequences, TLC

VARIABLES
    searchInput,     \* useState('')      the text of the search box
    mp,              \* useState(null)    <<>> or <<MP record>>
    loading,         \* useState(false)
    error,           \* useState('')      a message, see NoError
    allMPs,          \* useState([])      the roster
    suggestions,     \* useState([])
    usedPostalCode,  \* useState(false)
    emailTemplates,      \* useState(null)   <<>> or <<the parsed email-templates.json>>
    emailCount,          \* useState(null)   <<>> or <<n>>
    protestsDrawerOpen,  \* useState(false)
    protests,            \* useState([])
    lightboxImage,       \* useState(null)   <<>> or <<image path>>
    rosterLoad,      \* the mount-time fetch of mps-data.json: pending / done / failed
    templatesLoad,   \* the mount-time fetch of email-templates.json
    protestsLoad,    \* the mount-time fetch of protests.json
    countFetches,    \* the fetches of the sheet's CSV that have not settled
    inflight,        \* the searches awaiting their fetch, their json() or their timer
    sharesPending,   \* the runs of handleShare suspended at await navigator.share(shareData)
    tracked,         \* the tracking POSTs issued by the latest handler run
    mailto           \* the mailto: link the latest step opened: <<>> or <<link>>

vars == <<searchInput, mp, loading, error, allMPs, suggestions, usedPostalCode,
          emailTemplates, emailCount, protestsDrawerOpen, protests, lightboxImage,
          rosterLoad, templatesLoad, protestsLoad, countFetches, sharesPending, inflight, tracked,
          mailto>>

-----------------------------------------------------------------------------
(* Characters and the String methods the component calls.                   *)

UpperCaseLetters ==
    <<"A","B","C","D","E","F","G","H","I","J","K","L","M",
      "N","O","P","Q","R","S","T","U","V","W","X","Y","Z">>

LowerCaseLetters ==
    <<"a","b","c","d","e","f","g","h","i","j","k","l","m",
      "n","o","p","q","r","s","t","u","v","w","x","y","z">>

Letters == {UpperCaseLetters[i] : i \in 1..26} \cup {LowerCaseLetters[i] : i \in 1..26}

Digits == {"0","1","2","3","4","5","6","7","8","9"}

\* What \s matches and trim() strips, among the characters of the model.
Whitespace == {" ", "\t", "\n", "\r"}

LowerOf == [c \in Letters |->
              IF \E i \in 1..26 : UpperCaseLetters[i] = c
              THEN LowerCaseLetters[CHOOSE i \in 1..26 : UpperCaseLetters[i] = c]
              ELSE c]

UpperOf == [c \in Letters |->
              IF \E i \in 1..26 : LowerCaseLetters[i] = c
              THEN UpperCaseLetters[CHOOSE i \in 1..26 : LowerCaseLetters[i] = c]
              ELSE c]

toLowerCase(s) == [i \in 1..Len(s) |-> IF s[i] \in Letters THEN LowerOf[s[i]] ELSE s[i]]

toUpperCase(s) == [i \in 1..Len(s) |-> IF s[i] \in Letters THEN UpperOf[s[i]] ELSE s[i]]

trim(s) ==
    LET keep == SelectSeq([i \in 1..Len(s) |-> i], LAMBDA i : s[i] \notin Whitespace)
    IN  IF keep = <<>> THEN <<>> ELSE SubSeq(s, keep[1], keep[Len(keep)])

\* s.replace(/\s/g, '')
removeWhitespace(s) == SelectSeq(s, LAMBDA c : c \notin Whitespace)

includes(s, sub) ==
    \E i \in 0..(Len(s) - Len(sub)) : SubSeq(s, i + 1, i + Len(sub)) = sub

startsWith(s, prefix) ==
    /\ Len(prefix) <= Len(s)
    /\ SubSeq(s, 1, Len(prefix)) = prefix

\* s.split(sep)[0] for a one-character separator: the part before its first occurrence.
splitFirst(s, sep) ==
    LET at == {i \in 1..Len(s) : s[i] = sep}
    IN  IF at = {} THEN s
        ELSE SubSeq(s, 1, (CHOOSE i \in at : \A j \in at : i <= j) - 1)

\* postalCodePattern without the optional whitespace.
postalCodePattern_NoSpace(s) ==
    /\ Len(s) = 6
    /\ s[1] \in Letters /\ s[2] \in Digits /\ s[3] \in Letters
    /\ s[4] \in Digits  /\ s[5] \in Letters /\ s[6] \in Digits

\* /^[A-Za-z]\d[A-Za-z]\s?\d[A-Za-z]\d$/.test(s)
postalCodePattern(s) ==
    \/ /\ Len(s) = 6
       /\ s[1] \in Letters /\ s[2] \in Digits /\ s[3] \in Letters
       /\ s[4] \in Digits  /\ s[5] \in Letters /\ s[6] \in Digits
    \/ /\ Len(s) = 7
       /\ s[1] \in Letters /\ s[2] \in Digits /\ s[3] \in Letters
       /\ s[4] \in Whitespace
       /\ s[5] \in Digits  /\ s[6] \in Letters /\ s[7] \in Digits

\* Array.prototype.find: <<>> (undefined) or <<the first element the callback
\* accepts>>; test[i] is the callback's answer for arr[i].
find(arr, test) ==
    LET hits == {i \in 1..Len(arr) : test[i]}
    IN  IF hits = {} THEN <<>>
        ELSE <<arr[CHOOSE i \in hits : \A j \in hits : i <= j]>>

\* slice0 without the cap.
slice0_All(arr, n) == arr

\* results.slice(0, n)
slice0(arr, n) == SubSeq(arr, 1, IF Len(arr) < n THEN Len(arr) ELSE n)

-----------------------------------------------------------------------------
(* The data the component receives: roster rows, search box texts, and the   *)
(* replies of the geocoding service.                                         *)

\* Longest roster drawn from MPPool.
MaxRosterLen == 2

\* Rows of the long roster, enough for more matches than the suggestion cap.
BigLen == 14

\* Most whitespace characters inserted at one place of a postal code.
MaxInsert == 2

EmDash == "EMDASH"

Space == <<" ">>

MkMP(first, last, constituency, province) ==
    [firstName |-> first, lastName |-> last, fullName |-> first \o Space \o last,
     constituency |-> constituency, province |-> province,
     party |-> "Liberal", email |-> "mp@parl.gc.ca"]

Ontario == <<"O","n","t","a","r","i","o">>

Quebec == <<"Q","u","e","b","e","c">>

\* mp.fullName === 'Mark Carney'
MarkCarney == <<"M","a","r","k"," ","C","a","r","n","e","y">>

CarneyMP == MkMP(<<"M","a","r","k">>, <<"C","a","r","n","e","y">>,
                 <<"N","e","p","e","a","n">>, Ontario)

JaneDoeMP == MkMP(<<"J","a","n","e">>, <<"D","o","e">>,
                  <<"T","e","s","t","EMDASH","R","i","d","i","n","g">>, Quebec)

NaqviMP == MkMP(<<"Y","a","s","i","r">>, <<"N","a","q","v","i">>,
                <<"O","t","t","a","w","a"," ","C","e","n","t","r","e">>, Ontario)

FortierMP == MkMP(<<"M","o","n","a">>, <<"F","o","r","t","i","e","r">>,
                  <<"O","t","t","a","w","a","EMDASH","V","a","n","i","e","r">>, Ontario)

MPPool == {CarneyMP, JaneDoeMP, NaqviMP, FortierMP}

RowTags == <<"1","2","3","4","5","6","7","8","9","a","b","c","d","e","f","g","h","i">>

\* Row i of the long roster: every fourth row is an MP no query of the model
\* matches, the others share a first name and (up to case) a constituency.
BigRow(i) ==
    IF i % 4 = 0
    THEN MkMP(<<"X","y">>, <<RowTags[i]>>, <<"O","t","h","e","r">>, Quebec)
    ELSE MkMP(<<"M","p">>, <<RowTags[i]>>,
              IF i % 2 = 1 THEN <<"R","i","d","i","n","g">> ELSE <<"R","I","D","I","N","G">>,
              Quebec)

BigRosters == {[i \in 1..n |-> BigRow(i)] : n \in (BigLen - 3)..BigLen}

PoolRosters ==
    {r \in UNION {[1..n -> MPPool] : n \in 0..MaxRosterLen} :
        \A i, j \in 1..Len(r) : r[i] = r[j] => i = j}

\* The arrays mps-data.json may hold.
Rosters == PoolRosters \cup BigRosters

\* A valid postal code, from the search box's placeholder.
BaseCode == <<"K","1","A","0","A","6">>

withLowerAt(s, at) == [i \in 1..Len(s) |-> IF i \in at /\ s[i] \in Letters THEN LowerOf[s[i]] ELSE s[i]]

insertAt(s, gap, w) == SubSeq(s, 1, gap) \o w \o SubSeq(s, gap + 1, Len(s))

Spaces(n) == [i \in 1..n |-> " "]

\* BaseCode in every letter case, and with whitespace put before, after and
\* between its characters.
PostalInputs ==
    {withLowerAt(BaseCode, at) : at \in SUBSET {1, 3, 5}}
    \cup {insertAt(BaseCode, gap, Spaces(n)) : gap \in 0..6, n \in 1..MaxInsert}
    \cup {insertAt(withLowerAt(BaseCode, {1, 3, 5}), 3, Space),
          insertAt(withLowerAt(BaseCode, {3}), 3, <<"\t">>),
          insertAt(insertAt(BaseCode, 3, Space), 0, Space)}

TextInputs ==
    {<<>>, <<" ">>, <<"a">>, <<" ","a"," ">>, <<"z","z">>,
     <<"d","o","e">>, <<"D","O","E">>, <<" ","D","o","e"," ">>,
     <<"o","n","t">>, <<"O","n","T">>,
     <<"o","t","t","a","w","a">>, <<"O","T","T","A","W","A">>,
     <<"m","p">>, <<"M","P">>, <<"r","i","d","i","n","g">>}

\* What the visitor may type into the search box.
Inputs == TextInputs \cup PostalInputs

FederalSetName == <<"F","e","d","e","r","a","l"," ","e","l","e","c","t","o","r","a","l"," ",
                    "d","i","s","t","r","i","c","t">>

ProvincialSetName == <<"O","n","t","a","r","i","o"," ","e","l","e","c","t","o","r","a","l"," ",
                       "d","i","s","t","r","i","c","t">>

\* District names the service may return.
DistrictNames ==
    {<<"N","E","P","E","A","N">>,
     <<"O","t","t","a","w","a","EMDASH","V","a","n","i","e","r">>,
     <<"O","t","t","a","w","a","EMDASH","O","r","l","e","a","n","s">>,
     <<"T","e","s","t"," ","EMDASH","O","t","h","e","r">>,
     <<"V","a","c","a","n","t"," ","R","i","d","i","n","g">>,
     <<"r","i","d","i","n","g">>}

Boundary(setName, name) == [boundary_set_name |-> setName, name |-> name]

\* The parsed bodies of the service's replies.  A missing key is a field the
\* record does not have; isNull is the JSON value null.
ResponseBodies ==
    {[isNull |-> TRUE],
     [isNull |-> FALSE],
     [isNull |-> FALSE, boundaries_centroid |-> <<>>,
      boundaries_concordance |-> <<Boundary(FederalSetName, <<"N","E","P","E","A","N">>)>>],
     [isNull |-> FALSE, boundaries_centroid |-> <<Boundary(ProvincialSetName, Ontario)>>],
     [isNull |-> FALSE, boundaries_centroid |-> <<[name |-> Ontario]>>],
     [isNull |-> FALSE, boundaries_centroid |-> <<[boundary_set_name |-> FederalSetName]>>]}
    \cup {[isNull |-> FALSE,
           boundaries_centroid |-> <<Boundary(ProvincialSetName, Ontario),
                                     Boundary(FederalSetName, d)>>] : d \in DistrictNames}
    \cup {[isNull |-> FALSE,
           boundaries_concordance |-> <<Boundary(FederalSetName, d)>>] : d \in DistrictNames}

\* What a rejected fetch, a failed json() or a property read of undefined throws:
\* an Error whose message the browser words.
NetworkError == [isError |-> TRUE, message |-> "Failed to fetch"]

SyntaxError == [isError |-> TRUE, message |-> "Unexpected token < in JSON at position 0"]

TypeError == [isError |-> TRUE, message |-> "Cannot read properties of undefined"]

-----------------------------------------------------------------------------
(* Messages.  A message is its template text and what is interpolated into  *)
(* it; the empty string '' is NoError.                                       *)

Message(text, name, n) == [text |-> text, name |-> name, n |-> n]

NoError == Message("", <<>>, 0)

EmptyQueryError == Message("Please enter a postal code, MP name, constituency, or city", <<>>, 0)

ShortQueryError == Message("Please enter at least 2 characters", <<>>, 0)

HttpStatusError == [isError |-> TRUE, message |-> "Unable to find MP for this postal code"]

NoFederalDistrictError ==
    [isError |-> TRUE, message |-> "No federal constituency found for this postal code"]

GenericLookupError ==
    "Error looking up postal code. Try searching by constituency name instead."

VacantSeatNote(constituencyName) ==
    Message("Note: The constituency \"${constituencyName}\" seat is currently vacant or not in our database. Your email will be sent to Mark Carney (Prime Minister) with your constituency information.",
            constituencyName, 0)

NoRosterMatchError(constituencyName) ==
    Message("Found constituency \"${constituencyName}\" but couldn't match with MP database. Try searching by name instead.",
            constituencyName, 0)

NotFoundError ==
    Message("No MP found. Try searching by postal code, MP name, constituency, city, or province.",
            <<>>, 0)

ManyMatchesPrompt(n) ==
    Message("Found ${results.length} matches. Please select one below:", <<>>, n)

\* results.slice(0, 10)
SuggestionCap == 10

\* setTimeout(..., 300)
SearchDelayMs == 300

-----------------------------------------------------------------------------
(* trackEvent: one POST to the form endpoint, its result ignored.            *)

trackEvent(eventType, mpName, constituency) ==
    <<[eventType |-> eventType, mpName |-> mpName, constituency |-> constituency]>>

-----------------------------------------------------------------------------
(* searchMP's two continuations as functions of what they captured.  Each    *)
(* yields the setter calls it makes: a field is <<>> when the setter is not  *)
(* called and <<v>> when it is called with v.                                *)

Calls(setMp, setSuggestions, setError, events) ==
    [setMp |-> setMp, setSuggestions |-> setSuggestions, setError |-> setError,
     track |-> events]

\* catch (err) { setError(err instanceof Error ? err.message : '...') }
catchError(err) ==
    Calls(<<>>, <<>>,
          <<Message(IF err.isError THEN err.message ELSE GenericLookupError, <<>>, 0)>>,
          <<>>)

\* data.boundaries_centroid || data.boundaries_concordance || []
boundariesOf(data) ==
    IF "boundaries_centroid" \in DOMAIN data THEN data.boundaries_centroid
    ELSE IF "boundaries_concordance" \in DOMAIN data THEN data.boundaries_concordance
    ELSE <<>>

isFederal(b) ==
    /\ "boundary_set_name" \in DOMAIN b
    /\ b.boundary_set_name # <<>>
    /\ includes(toLowerCase(b.boundary_set_name), <<"f","e","d","e","r","a","l">>)

federalDistrictOf(data) ==
    LET boundaries == boundariesOf(data)
    IN  find(boundaries, [k \in 1..Len(boundaries) |-> isFederal(boundaries[k])])

exactMatch(roster, constituencyName) ==
    LET nameLower == toLowerCase(constituencyName)
    IN  find(roster, [k \in 1..Len(roster) |->
                        toLowerCase(roster[k].constituency) = nameLower])

\* constituencyFirstPart without the trim.
constituencyFirstPart_NoTrim(constituencyName) ==
    toLowerCase(splitFirst(constituencyName, EmDash))

constituencyFirstPart(constituencyName) ==
    trim(toLowerCase(splitFirst(constituencyName, EmDash)))

prefixMatch(roster, constituencyName) ==
    LET firstPart == constituencyFirstPart(constituencyName)
    IN  find(roster, [k \in 1..Len(roster) |->
                        startsWith(toLowerCase(roster[k].constituency), firstPart)])

\* foundMPOf with the prefix match tried before the exact match.
foundMPOf_PrefixFirst(roster, constituencyName) ==
    IF prefixMatch(roster, constituencyName) # <<>>
    THEN prefixMatch(roster, constituencyName)
    ELSE exactMatch(roster, constituencyName)

foundMPOf(roster, constituencyName) ==
    LET exact == exactMatch(roster, constituencyName)
    IN  IF exact # <<>> THEN exact ELSE prefixMatch(roster, constituencyName)

markCarneyOf(roster) ==
    find(roster, [k \in 1..Len(roster) |-> roster[k].fullName = MarkCarney])

\* defaultMPOf with the default contact's own constituency as actualConstituency.
defaultMPOf_OwnConstituency(markCarney, constituencyName, queryUpper) ==
    [f \in DOMAIN markCarney \cup {"isDefault", "actualConstituency", "postalCode"} |->
        CASE f = "isDefault" -> TRUE
          [] f = "actualConstituency" -> markCarney.constituency
          [] f = "postalCode" -> queryUpper
          [] OTHER -> markCarney[f]]

\* { ...markCarney, isDefault: true, actualConstituency, postalCode }
defaultMPOf(markCarney, constituencyName, queryUpper) ==
    [f \in DOMAIN markCarney \cup {"isDefault", "actualConstituency", "postalCode"} |->
        CASE f = "isDefault" -> TRUE
          [] f = "actualConstituency" -> constituencyName
          [] f = "postalCode" -> queryUpper
          [] OTHER -> markCarney[f]]

\* resolveDistrict reporting an unmatched district with the status message.
resolveDistrict_SameMessage(roster, queryUpper, data) ==
    IF data.isNull THEN catchError(TypeError)
    ELSE
      LET federalDistrict == federalDistrictOf(data)
          constituencyName == federalDistrict[1].name
          foundMP == foundMPOf(roster, constituencyName)
          markCarney == markCarneyOf(roster)
      IN  IF federalDistrict = <<>> THEN catchError(NoFederalDistrictError)
          ELSE IF "name" \notin DOMAIN federalDistrict[1] THEN catchError(TypeError)
          ELSE IF foundMP # <<>>
          THEN Calls(<<foundMP>>, <<>>, <<>>,
                     trackEvent("Search MP", foundMP[1].fullName, foundMP[1].constituency))
          ELSE IF markCarney # <<>>
          THEN Calls(<<<<defaultMPOf(markCarney[1], constituencyName, queryUpper)>>>>, <<>>,
                     <<VacantSeatNote(constituencyName)>>,
                     trackEvent("Search MP", markCarney[1].fullName, constituencyName))
          ELSE catchError(HttpStatusError)

\* The try block from response.json() on, for the parsed body `data`.
resolveDistrict(roster, queryUpper, data) ==
    IF data.isNull THEN catchError(TypeError)
    ELSE
      LET federalDistrict == federalDistrictOf(data)
          constituencyName == federalDistrict[1].name
          foundMP == foundMPOf(roster, constituencyName)
          markCarney == markCarneyOf(roster)
      IN  IF federalDistrict = <<>> THEN catchError(NoFederalDistrictError)
          ELSE IF "name" \notin DOMAIN federalDistrict[1] THEN catchError(TypeError)
          ELSE IF foundMP # <<>>
          THEN Calls(<<foundMP>>, <<>>, <<>>,
                     trackEvent("Search MP", foundMP[1].fullName, foundMP[1].constituency))
          ELSE IF markCarney # <<>>
          THEN Calls(<<<<defaultMPOf(markCarney[1], constituencyName, queryUpper)>>>>, <<>>,
                     <<VacantSeatNote(constituencyName)>>,
                     trackEvent("Search MP", markCarney[1].fullName, constituencyName))
          ELSE Calls(<<>>, <<>>, <<NoRosterMatchError(constituencyName)>>, <<>>)

matchesText(m, queryLower) ==
    \/ includes(toLowerCase(m.fullName), queryLower)
    \/ includes(toLowerCase(m.constituency), queryLower)
    \/ includes(toLowerCase(m.province), queryLower)
    \/ includes(toLowerCase(m.lastName), queryLower)
    \/ includes(toLowerCase(m.firstName), queryLower)

\* textResults with the query compared as typed.
textResults_CaseSensitive(roster, query) ==
    SelectSeq(roster, LAMBDA m : matchesText(m, query))

textResults(roster, query) ==
    LET queryLower == toLowerCase(query)
    IN  SelectSeq(roster, LAMBDA m : matchesText(m, queryLower))

\* localSearch with the single result also set when several rows match.
localSearch_AlsoSetsMp(roster, query) ==
    LET results == SelectSeq(roster, LAMBDA m : matchesText(m, toLowerCase(query)))
    IN  IF Len(results) = 0 THEN Calls(<<>>, <<>>, <<NotFoundError>>, <<>>)
        ELSE IF Len(results) = 1
        THEN Calls(<<<<results[1]>>>>, <<>>, <<>>,
                   trackEvent("Search MP", results[1].fullName, results[1].constituency))
        ELSE Calls(<<<<results[1]>>>>, <<SubSeq(results, 1, IF Len(results) < 10 THEN Len(results) ELSE 10)>>,
                   <<ManyMatchesPrompt(Len(results))>>, <<>>)

\* The setTimeout callback.
localSearch(roster, query) ==
    LET results == textResults(roster, query)
    IN  IF Len(results) = 0 THEN Calls(<<>>, <<>>, <<NotFoundError>>, <<>>)
        ELSE IF Len(results) = 1
        THEN Calls(<<<<results[1]>>>>, <<>>, <<>>,
                   trackEvent("Search MP", results[1].fullName, results[1].constituency))
        ELSE Calls(<<>>, <<slice0(results, SuggestionCap)>>,
                   <<ManyMatchesPrompt(Len(results))>>, <<>>)

-----------------------------------------------------------------------------
(* The email composer: getEmailTemplate and createMailtoLink.  A template    *)
(* body is a string; its placeholders are the literal texts below.           *)

MP_NAME == <<"[","M","P","_","N","A","M","E","]">>

CONSTITUENCY_INFO ==
    <<"[","C","O","N","S","T","I","T","U","E","N","C","Y","_","I","N","F","O","]">>

DAYS_COUNT == <<"[","D","A","Y","S","_","C","O","U","N","T","]">>

\* s.replace(pattern, replacement) for a string pattern: the first occurrence only.
replace(s, pattern, replacement) ==
    LET at == {i \in 0..(Len(s) - Len(pattern)) : SubSeq(s, i + 1, i + Len(pattern)) = pattern}
    IN  IF at = {} THEN s
        ELSE LET i == CHOOSE i \in at : \A j \in at : i <= j
             IN  SubSeq(s, 1, i) \o replacement \o SubSeq(s, i + Len(pattern) + 1, Len(s))

RECURSIVE digitsOf(_)
digitsOf(n) ==
    LET DigitChars == <<"0","1","2","3","4","5","6","7","8","9">>
    IN  IF n < 10 THEN <<DigitChars[n + 1]>>
        ELSE digitsOf(n \div 10) \o <<DigitChars[(n % 10) + 1]>>

\* Number.prototype.toString of an integer
toString(n) == IF n < 0 THEN <<"-">> \o digitsOf(-n) ELSE digitsOf(n)

Templates(regular, primeMinister, french) ==
    [regularTemplates |-> [i \in 1..Len(regular) |-> [body |-> regular[i]]],
     primeMinisterTemplate |-> [body |-> primeMinister],
     frenchTemplates |-> [i \in 1..Len(french) |-> [body |-> french[i]]]]

\* What email-templates.json may hold.  The first two characters of a body tell
\* the bodies apart; the second file uses a placeholder more than once in a body.
TemplateSets ==
    LET
        RegularBody1 ==
            <<"R","1"," ","D","e","a","r"," ","[","M","P","_","N","A","M","E","]",","," ","d",
              "a","y"," ","[","D","A","Y","S","_","C","O","U","N","T","]","."," ","[","C","O",
              "N","S","T","I","T","U","E","N","C","Y","_","I","N","F","O","]">>
        RegularBody2 ==
            <<"R","2"," ","[","M","P","_","N","A","M","E","]",":"," ","d","e","a","r"," ","[",
              "M","P","_","N","A","M","E","]",","," ","d","a","y"," ","[","D","A","Y","S","_",
              "C","O","U","N","T","]",".">>
        PrimeMinisterBody ==
            <<"P","M"," ","D","e","a","r"," ","[","M","P","_","N","A","M","E","]",","," ","d",
              "a","y"," ","[","D","A","Y","S","_","C","O","U","N","T","]","."," ","[","C","O",
              "N","S","T","I","T","U","E","N","C","Y","_","I","N","F","O","]">>
        FrenchBody1 ==
            <<"F","1"," ","B","o","n","j","o","u","r"," ","[","M","P","_","N","A","M","E","]",
              ","," ","d","a","y"," ","[","D","A","Y","S","_","C","O","U","N","T","]","."," ",
              "[","C","O","N","S","T","I","T","U","E","N","C","Y","_","I","N","F","O","]">>
        FrenchBody2 ==
            <<"F","2"," ","[","M","P","_","N","A","M","E","]",","," ","[","C","O","N","S","T",
              "I","T","U","E","N","C","Y","_","I","N","F","O","]">>
        RegularBodyTwoCounts ==
            <<"R","3"," ","d","a","y"," ","[","D","A","Y","S","_","C","O","U","N","T","]",".",
              " ","S","i","n","c","e"," ","[","D","A","Y","S","_","C","O","U","N","T","]"," ",
              "d","a","y","s",","," ","[","M","P","_","N","A","M","E","]">>
        RegularBodyThreeNames ==
            <<"R","4"," ","[","M","P","_","N","A","M","E","]",","," ","[","M","P","_","N","A",
              "M","E","]",":"," ","d","e","a","r"," ","[","M","P","_","N","A","M","E","]">>
        PrimeMinisterBodyTwoInfos ==
            <<"P","M"," ","[","C","O","N","S","T","I","T","U","E","N","C","Y","_","I","N","F",
              "O","]",";"," ","[","M","P","_","N","A","M","E","]"," ","o","f"," ","[","C","O",
              "N","S","T","I","T","U","E","N","C","Y","_","I","N","F","O","]">>
        FrenchBodyTwoCounts ==
            <<"F","3"," ","d","a","y"," ","[","D","A","Y","S","_","C","O","U","N","T","]",".",
              " ","D","e","p","u","i","s"," ","[","D","A","Y","S","_","C","O","U","N","T","]",
              " ","j","o","u","r","s">>
    IN  {Templates(<<RegularBody1, RegularBody2>>, PrimeMinisterBody,
                   <<FrenchBody1, FrenchBody2>>),
         Templates(<<RegularBodyTwoCounts, RegularBodyThreeNames>>, PrimeMinisterBodyTwoInfos,
                   <<FrenchBodyTwoCounts>>)}

\* Math.random() is k / RandomSteps, for k in 0 .. RandomSteps - 1.
RandomSteps == 2

\* Math.floor(Math.random() * length), as an index from 1.
randomIndex(random, length) == ((random * length) \div RandomSteps) + 1

-----------------------------------------------------------------------------
(* Dates.  An instant is a whole number of hours since 2026-01-08T00:00Z, a   *)
(* local day is counted from 2026-01-08, and a time zone is its standard      *)
(* offset from UTC in hours with the instants of 2026 at which its clocks go  *)
(* forward and back.                                                          *)

\* 1000 * 60 * 60 * 24 ms, in hours
DayLength == 24

Zone(offset, hasDst, dstStart, dstEnd) ==
    [offset |-> offset, hasDst |-> hasDst, dstStart |-> dstStart, dstEnd |-> dstEnd]

\* America/Toronto: UTC-5, daylight time from 2026-03-08 02:00 standard time
\* (07:00Z) to 2026-11-01 02:00 daylight time (06:00Z).
Toronto == Zone(-5, TRUE, 59 * DayLength + 7, 297 * DayLength + 6)

\* UTC, America/Toronto, Europe/Berlin (UTC+1, summer time from 2026-03-29 to
\* 2026-10-25, both changes at 01:00Z) and Asia/Tokyo (UTC+9).
Zones ==
    {Zone(0, FALSE, 0, 0), Toronto, Zone(1, TRUE, 80 * DayLength + 1, 290 * DayLength + 1),
     Zone(9, FALSE, 0, 0)}

\* new Date('2026-01-08'): a date-only form is UTC midnight.
StartInstant == 0

\* The zone's offset from UTC at an instant.
utcOffset(zone, t) ==
    IF zone.hasDst /\ t >= zone.dstStart /\ t < zone.dstEnd
    THEN zone.offset + 1 ELSE zone.offset

\* The local calendar day an instant falls on.
localDay(zone, t) == (t + utcOffset(zone, t)) \div DayLength

\* date.setHours(0, 0, 0, 0): the instant of local midnight of the date's local day.
setHoursZero(zone, t) ==
    LET day == localDay(zone, t)
        summerMidnight == day * DayLength - (zone.offset + 1)
    IN  IF utcOffset(zone, summerMidnight) = zone.offset + 1 THEN summerMidnight
        ELSE day * DayLength - zone.offset

\* Math.floor((today - startDate) / (1000 * 60 * 60 * 24))
diffDaysOf(zone, now) ==
    (setHoursZero(zone, now) - setHoursZero(zone, StartInstant)) \div DayLength

\* The clock readings of new Date(): around the start date, and in the summer.
Instants == {day * DayLength + hour : day \in {-1, 0, 1, 81}, hour \in {3, 20}}

-----------------------------------------------------------------------------
\* getEmailTemplate with the prime-minister template chosen before the language.
getEmailTemplate_PrimeMinisterFirst(mpData, language, templates, random, now, zone) ==
    IF templates = <<>> THEN <<>>
    ELSE
      LET t == templates[1]
          template ==
            IF mpData.fullName = MarkCarney THEN t.primeMinisterTemplate.body
            ELSE IF language = "fr"
            THEN t.frenchTemplates[randomIndex(random, Len(t.frenchTemplates))].body
            ELSE t.regularTemplates[randomIndex(random, Len(t.regularTemplates))].body
      IN  replace(template, DAYS_COUNT, toString(diffDaysOf(zone, now)))

\* getEmailTemplate(mpData, language) for the templates state, the draw of
\* Math.random() and the clock reading of new Date() in the visitor's zone.
getEmailTemplate(mpData, language, templates, random, now, zone) ==
    IF templates = <<>> THEN <<>>
    ELSE
      LET t == templates[1]
          template ==
            IF language = "fr"
            THEN t.frenchTemplates[randomIndex(random, Len(t.frenchTemplates))].body
            ELSE IF mpData.fullName = MarkCarney THEN t.primeMinisterTemplate.body
            ELSE t.regularTemplates[randomIndex(random, Len(t.regularTemplates))].body
      IN  replace(template, DAYS_COUNT, toString(diffDaysOf(zone, now)))

\* encodeURIComponent of the two subjects.
SubjectEnglish ==
    "RE%3A%20Urgent%20Call%20for%20Support%20of%20the%20Iranian%20People%20and%20Condemnation%20of%20the%20Islamic%20Republic"

SubjectFrench ==
    "RE%3A%20Appel%20urgent%20au%20soutien%20du%20peuple%20iranien%20et%20%C3%A0%20la%20condamnation%20de%20la%20R%C3%A9publique%20islamique"

\* The characters encodeURIComponent leaves as they are.
Unreserved == Letters \cup Digits \cup {"-", "_", ".", "!", "~", "*", "'", "(", ")"}

\* The UTF-8 bytes of the other characters, each as %XX.
PercentCode ==
    [c \in {" ", "[", "]", ",", ":", ";", "\n", "\t", "\"", "%",
            "EMDASH", "EACUTE", "EGRAVE", "CCEDIL", "AGRAVE"} |->
        CASE c = " " -> <<"%","2","0">>
          [] c = "[" -> <<"%","5","B">>
          [] c = "]" -> <<"%","5","D">>
          [] c = "," -> <<"%","2","C">>
          [] c = ":" -> <<"%","3","A">>
          [] c = ";" -> <<"%","3","B">>
          [] c = "\n" -> <<"%","0","A">>
          [] c = "\t" -> <<"%","0","9">>
          [] c = "\"" -> <<"%","2","2">>
          [] c = "%" -> <<"%","2","5">>
          [] c = "EMDASH" -> <<"%","E","2","%","8","0","%","9","4">>
          [] c = "EACUTE" -> <<"%","C","3","%","A","9">>
          [] c = "EGRAVE" -> <<"%","C","3","%","A","8">>
          [] c = "CCEDIL" -> <<"%","C","3","%","A","7">>
          [] c = "AGRAVE" -> <<"%","C","3","%","A","0">>]

RECURSIVE encodeRange(_, _, _)
encodeRange(s, lo, hi) ==
    IF lo > hi THEN <<>>
    ELSE IF lo = hi THEN (IF s[lo] \in Unreserved THEN <<s[lo]>> ELSE PercentCode[s[lo]])
    ELSE encodeRange(s, lo, (lo + hi) \div 2) \o encodeRange(s, ((lo + hi) \div 2) + 1, hi)

encodeURIComponent(s) == encodeRange(s, 1, Len(s))

\* mpData.isDefault && mpData.actualConstituency
isFallback(mpData) ==
    /\ "isDefault" \in DOMAIN mpData /\ mpData.isDefault
    /\ "actualConstituency" \in DOMAIN mpData /\ mpData.actualConstituency # <<>>

\* The note createMailtoLink appends for a fallback result.
constituencyNote(mpData, language) ==
    LET
        NoteEnglishStart ==
            <<"\n","\n","N","o","t","e",":"," ","I"," ","a","m"," ","w","r","i","t","i","n","g",
              " ","f","r","o","m"," ","t","h","e"," ">>
        NoteEnglishConstituency ==
            <<" ","c","o","n","s","t","i","t","u","e","n","c","y">>
        NoteEnglishPostalCode ==
            <<" ","(","P","o","s","t","a","l"," ","C","o","d","e",":"," ">>
        NoteEnglishEnd ==
            <<","," ","w","h","i","c","h"," ","c","u","r","r","e","n","t","l","y"," ","h","a",
              "s"," ","a"," ","v","a","c","a","n","t"," ","s","e","a","t","."," ","I"," ","a",
              "m"," ","r","e","a","c","h","i","n","g"," ","o","u","t"," ","t","o"," ","y","o",
              "u"," ","a","s"," ","P","r","i","m","e"," ","M","i","n","i","s","t","e","r"," ",
              "t","o"," ","e","n","s","u","r","e"," ","t","h","i","s"," ","i","m","p","o","r",
              "t","a","n","t"," ","i","s","s","u","e"," ","r","e","c","e","i","v","e","s"," ",
              "a","t","t","e","n","t","i","o","n",".">>
        NoteFrenchStart ==
            <<"\n","\n","N","o","t","e",":"," ","J","'","EACUTE","c","r","i","s"," ","d","e",
              " ","l","a"," ","c","i","r","c","o","n","s","c","r","i","p","t","i","o","n"," ">>
        NoteFrenchPostalCode ==
            <<" ","(","C","o","d","e"," ","p","o","s","t","a","l",":"," ">>
        NoteFrenchEnd ==
            <<","," ","q","u","i"," ","a"," ","a","c","t","u","e","l","l","e","m","e","n","t",
              " ","u","n"," ","s","i","EGRAVE","g","e"," ","v","a","c","a","n","t","."," ","J",
              "e"," ","v","o","u","s"," ","c","o","n","t","a","c","t","e"," ","e","n"," ","t",
              "a","n","t"," ","q","u","e"," ","P","r","e","m","i","e","r"," ","m","i","n","i",
              "s","t","r","e"," ","p","o","u","r"," ","m","'","a","s","s","u","r","e","r"," ",
              "q","u","e"," ","c","e","t","t","e"," ","q","u","e","s","t","i","o","n"," ","i",
              "m","p","o","r","t","a","n","t","e"," ","r","e","CCEDIL","o","i","t"," ","l","'",
              "a","t","t","e","n","t","i","o","n"," ","n","EACUTE","c","e","s","s","a","i","r",
              "e",".">>
        postal == IF "postalCode" \in DOMAIN mpData /\ mpData.postalCode # <<>>
                  THEN (IF language = "fr" THEN NoteFrenchPostalCode ELSE NoteEnglishPostalCode)
                       \o mpData.postalCode \o <<")">>
                  ELSE <<>>
    IN  IF language = "fr"
        THEN NoteFrenchStart \o mpData.actualConstituency \o postal \o NoteFrenchEnd
        ELSE NoteEnglishStart \o mpData.actualConstituency \o NoteEnglishConstituency
             \o postal \o NoteEnglishEnd

\* emailBodyOf with no note appended for a fallback result.
emailBodyOf_NoNote(mpData, language, templates, random, now, zone) ==
    LET named == replace(replace(getEmailTemplate(mpData, language, templates, random, now, zone),
                                 MP_NAME, mpData.fullName),
                         MP_NAME, mpData.fullName)
        locationInfo == mpData.constituency \o <<",", " ">> \o mpData.province
    IN  replace(named, CONSTITUENCY_INFO, locationInfo)

\* The text of the email before it is encoded into the link.
emailBodyOf(mpData, language, templates, random, now, zone) ==
    LET named == replace(replace(getEmailTemplate(mpData, language, templates, random, now, zone),
                                 MP_NAME, mpData.fullName),
                         MP_NAME, mpData.fullName)
        locationInfo == mpData.constituency \o <<",", " ">> \o mpData.province
        located == replace(named, CONSTITUENCY_INFO, locationInfo)
    IN  IF isFallback(mpData) THEN located \o constituencyNote(mpData, language) ELSE located

\* `mailto:${email}?subject=${subject}&body=${body}`, as its three parts.
createMailtoLink(mpData, language, templates, random, now, zone) ==
    [to |-> mpData.email,
     subject |-> IF language = "fr" THEN SubjectFrench ELSE SubjectEnglish,
     body |-> encodeURIComponent(emailBodyOf(mpData, language, templates, random, now, zone))]

-----------------------------------------------------------------------------
(* fetchEmailCount's parse of the sheet's CSV.                                *)

\* s.split(sep) for a one-character separator
split(s, sep) ==
    LET at == SelectSeq([i \in 1..Len(s) |-> i], LAMBDA i : s[i] = sep)
        cut(k) == IF k = 0 THEN 0 ELSE IF k = Len(at) + 1 THEN Len(s) + 1 ELSE at[k]
    IN  [k \in 1..(Len(at) + 1) |-> SubSeq(s, cut(k - 1) + 1, cut(k) - 1)]

\* s.replace(/^"(.*)"$/, '$1'): one pair of surrounding quotes removed.
stripQuotes(s) ==
    IF /\ Len(s) >= 2 /\ s[1] = "\"" /\ s[Len(s)] = "\""
       /\ \A i \in 2..(Len(s) - 1) : s[i] \notin {"\n", "\r"}
    THEN SubSeq(s, 2, Len(s) - 1) ELSE s

SendEmail ==
    <<"S","e","n","d"," ","e","m","a","i","l">>

\* countsAsSent without the trim of the column.
countsAsSent_NoTrim(line) ==
    LET columns == split(line, ",")
    IN  Len(columns) > 1 /\ stripQuotes(columns[2]) = SendEmail

\* The loop body: whether a data row is counted.
countsAsSent(line) ==
    LET columns == split(line, ",")
    IN  Len(columns) > 1 /\ stripQuotes(trim(columns[2])) = SendEmail

\* The count fetchEmailCount sets for the sheet's text.
countEmails(csvText) ==
    LET lines == split(trim(csvText), "\n")
    IN  IF Len(lines) <= 1 THEN 0
        ELSE Cardinality({i \in 2..Len(lines) : countsAsSent(lines[i])})

\* Texts the sheet may return.
CsvHeader ==
    <<"T","i","m","e","s","t","a","m","p",",","E","v","e","n","t"," ","T","y","p","e",",","M",
      "P">>

CsvTwoRows ==
    <<"T","i","m","e","s","t","a","m","p",",","E","v","e","n","t"," ","T","y","p","e",",","M",
      "P","\n","1",",","S","e","n","d"," ","e","m","a","i","l",",","A","\n","2",",","S","e","a",
      "r","c","h"," ","M","P",",","B">>

CsvTexts ==
    LET
        CsvQuoted ==
            <<"T","i","m","e","s","t","a","m","p",",","E","v","e","n","t"," ","T","y","p","e",
              ",","M","P","\n","1",",","\"","S","e","n","d"," ","e","m","a","i","l","\"",",",
              "A","\n","2",","," ","S","e","n","d"," ","e","m","a","i","l"," ",",","B","\r",
              "\n","3",",","S","e","n","d"," ","e","m","a","i","l"," ","(","F","r","e","n","c",
              "h",")",",","C","\n">>
        CsvOddRows ==
            <<"T","i","m","e","s","t","a","m","p",",","E","v","e","n","t"," ","T","y","p","e",
              "\n","1","\n","2",",","\"","\"","S","e","n","d"," ","e","m","a","i","l","\"","\"",
              "\n","3",",","\""," ","S","e","n","d"," ","e","m","a","i","l","\"","\n","\n","4",
              ",","S","e","n","d"," ","e","m","a","i","l">>
    IN  {<<>>, CsvHeader, CsvTwoRows, CsvQuoted, CsvOddRows}

\* What protests.json may hold: the list under its key, an empty list, no key.
ProtestFiles ==
    {[protests |-> <<[id |-> 1, title |-> <<"R","a","l","l","y">>,
                      image |-> <<"r","a","l","l","y",".","j","p","g">>],
                     [id |-> 2, title |-> <<"V","i","g","i","l">>]>>],
     [protests |-> <<>>],
     [updated |-> "2026-01-08"]}

\* Most fetches of the sheet that are pending at once.
MaxCountFetches == 2

\* Most runs of handleShare that are suspended at once.
MaxShares == 1

-----------------------------------------------------------------------------
(* The state machine.                                                        *)

\* The state once the mount effect has run: the three loads and the first
\* fetch of the email count are under way.
Init ==
    /\ searchInput = <<>>
    /\ mp = <<>>
    /\ loading = FALSE
    /\ error = NoError
    /\ allMPs = <<>>
    /\ suggestions = <<>>
    /\ usedPostalCode = FALSE
    /\ emailTemplates = <<>>
    /\ emailCount = <<>>
    /\ protestsDrawerOpen = FALSE
    /\ protests = <<>>
    /\ lightboxImage = <<>>
    /\ rosterLoad = "pending"
    /\ templatesLoad = "pending"
    /\ protestsLoad = "pending"
    /\ countFetches = 1
    /\ inflight = <<>>
    /\ sharesPending = 0
    /\ tracked = <<>>
    /\ mailto = <<>>

\* The state the search handlers and the roster load never write, and no link opened.
pageVars == <<emailTemplates, emailCount, protestsDrawerOpen, protests, lightboxImage,
              templatesLoad, protestsLoad, countFetches, sharesPending>>

NoPageEffect == mailto' = <<>> /\ UNCHANGED pageVars

RemoveAt(seq, i) == SubSeq(seq, 1, i - 1) \o SubSeq(seq, i + 1, Len(seq))

\* What a pending search holds: the query and the roster of the render that
\* started it, and what it waits for.
FetchRequest(query, queryUpper, roster) ==
    [kind |-> "fetch", awaiting |-> "response", query |-> query, code |-> queryUpper,
     roster |-> roster]

TimerRequest(query, roster) ==
    [kind |-> "timer", awaiting |-> "timeout", delay |-> SearchDelayMs, query |-> query,
     roster |-> roster]

\* The setter calls of one continuation, then setLoading(false).
Complete(i, calls) ==
    /\ mp' = IF calls.setMp = <<>> THEN mp ELSE calls.setMp[1]
    /\ suggestions' = IF calls.setSuggestions = <<>> THEN suggestions
                      ELSE calls.setSuggestions[1]
    /\ error' = IF calls.setError = <<>> THEN error ELSE calls.setError[1]
    /\ tracked' = calls.track
    /\ loading' = FALSE
    /\ inflight' = RemoveAt(inflight, i)
    /\ UNCHANGED <<searchInput, allMPs, usedPostalCode, rosterLoad>>
    /\ NoPageEffect

\* useEffect: fetch(mps-data.json).then(res => res.json()).then(setAllMPs)
RosterLoaded(data) ==
    /\ rosterLoad = "pending"
    /\ rosterLoad' = "done"
    /\ allMPs' = data
    /\ tracked' = <<>>
    /\ UNCHANGED <<searchInput, mp, loading, error, suggestions, usedPostalCode, inflight>>
    /\ NoPageEffect

\* .catch(err => console.error('Failed to load MP data:', err))
RosterLoadFailed ==
    /\ rosterLoad = "pending"
    /\ rosterLoad' = "failed"
    /\ tracked' = <<>>
    /\ UNCHANGED <<searchInput, mp, loading, error, allMPs, suggestions, usedPostalCode,
                   inflight>>
    /\ NoPageEffect

\* <input onChange={(e) => setSearchInput(e.target.value)} disabled={loading} />
SetSearchInput(value) ==
    /\ ~loading
    /\ searchInput' = value
    /\ tracked' = <<>>
    /\ UNCHANGED <<mp, loading, error, allMPs, suggestions, usedPostalCode, rosterLoad,
                   inflight>>
    /\ NoPageEffect

\* searchMP without the minimum-length check.
searchMP_NoMinLength ==
    LET query == trim(searchInput)
        queryUpper == removeWhitespace(toUpperCase(query))
    IN  /\ tracked' = <<>>
        /\ UNCHANGED <<searchInput, allMPs, rosterLoad>>
        /\ NoPageEffect
        /\ IF query = <<>>
           THEN /\ error' = EmptyQueryError
                /\ UNCHANGED <<mp, loading, suggestions, usedPostalCode, inflight>>
           ELSE /\ loading' = TRUE
                /\ error' = NoError
                /\ mp' = <<>>
                /\ suggestions' = <<>>
                /\ usedPostalCode' = postalCodePattern(query)
                /\ inflight' = Append(inflight,
                                      IF postalCodePattern(query)
                                      THEN FetchRequest(query, queryUpper, allMPs)
                                      ELSE TimerRequest(query, allMPs))

\* searchMP with the previous result cleared before the query is validated.
searchMP_ResetsFirst ==
    LET query == trim(searchInput)
        queryUpper == removeWhitespace(toUpperCase(query))
    IN  /\ tracked' = <<>>
        /\ UNCHANGED <<searchInput, allMPs, rosterLoad>>
        /\ NoPageEffect
        /\ mp' = <<>>
        /\ suggestions' = <<>>
        /\ IF query = <<>>
           THEN /\ error' = EmptyQueryError
                /\ UNCHANGED <<loading, usedPostalCode, inflight>>
           ELSE IF Len(query) < 2
           THEN /\ error' = ShortQueryError
                /\ UNCHANGED <<loading, usedPostalCode, inflight>>
           ELSE /\ loading' = TRUE
                /\ error' = NoError
                /\ usedPostalCode' = postalCodePattern(query)
                /\ inflight' = Append(inflight,
                                      IF postalCodePattern(query)
                                      THEN FetchRequest(query, queryUpper, allMPs)
                                      ELSE TimerRequest(query, allMPs))

searchMP ==
    LET query == trim(searchInput)
        queryUpper == removeWhitespace(toUpperCase(query))
    IN  /\ tracked' = <<>>
        /\ UNCHANGED <<searchInput, allMPs, rosterLoad>>
        /\ NoPageEffect
        /\ IF query = <<>>
           THEN /\ error' = EmptyQueryError
                /\ UNCHANGED <<mp, loading, suggestions, usedPostalCode, inflight>>
           ELSE IF Len(query) < 2
           THEN /\ error' = ShortQueryError
                /\ UNCHANGED <<mp, loading, suggestions, usedPostalCode, inflight>>
           ELSE /\ loading' = TRUE
                /\ error' = NoError
                /\ mp' = <<>>
                /\ suggestions' = <<>>
                /\ usedPostalCode' = postalCodePattern(query)
                /\ inflight' = Append(inflight,
                                      IF postalCodePattern(query)
                                      THEN FetchRequest(query, queryUpper, allMPs)
                                      ELSE TimerRequest(query, allMPs))

\* ClickFindMyMP on a button that is not disabled while loading.
ClickFindMyMP_NotDisabled ==
    searchMP

\* <button onClick={searchMP} disabled={loading}>
ClickFindMyMP ==
    /\ ~loading
    /\ searchMP

\* handleKeyPress on an input that is not disabled while loading.
handleKeyPress_WhileLoading(key) ==
    IF key = "Enter" THEN searchMP
    ELSE /\ tracked' = <<>>
         /\ UNCHANGED <<searchInput, mp, loading, error, allMPs, suggestions,
                        usedPostalCode, rosterLoad, inflight>>
         /\ NoPageEffect

\* <input onKeyPress={handleKeyPress} disabled={loading} />
handleKeyPress(key) ==
    /\ ~loading
    /\ IF key = "Enter" THEN searchMP
       ELSE /\ tracked' = <<>>
            /\ UNCHANGED <<searchInput, mp, loading, error, allMPs, suggestions,
                           usedPostalCode, rosterLoad, inflight>>
            /\ NoPageEffect

\* await fetch(...) rejects: catch, finally.
FetchRejected(i) ==
    /\ i \in 1..Len(inflight)
    /\ inflight[i].kind = "fetch" /\ inflight[i].awaiting = "response"
    /\ Complete(i, catchError(NetworkError))

\* await fetch(...) resolves; !response.ok throws, else response.json() is awaited.
FetchResponded(i, ok) ==
    /\ i \in 1..Len(inflight)
    /\ inflight[i].kind = "fetch" /\ inflight[i].awaiting = "response"
    /\ IF ok
       THEN /\ inflight' = [inflight EXCEPT ![i].awaiting = "json"]
            /\ tracked' = <<>>
            /\ UNCHANGED <<searchInput, mp, loading, error, allMPs, suggestions,
                           usedPostalCode, rosterLoad>>
            /\ NoPageEffect
       ELSE Complete(i, catchError(HttpStatusError))

\* JsonRejected with setLoading(false) at the end of the try block, not in finally.
JsonRejected_NoFinally(i) ==
    /\ i \in 1..Len(inflight)
    /\ inflight[i].kind = "fetch" /\ inflight[i].awaiting = "json"
    /\ error' = catchError(SyntaxError).setError[1]
    /\ inflight' = RemoveAt(inflight, i)
    /\ tracked' = <<>>
    /\ UNCHANGED <<searchInput, mp, loading, allMPs, suggestions, usedPostalCode, rosterLoad>>
    /\ NoPageEffect

\* await response.json() rejects: the body is not JSON.
JsonRejected(i) ==
    /\ i \in 1..Len(inflight)
    /\ inflight[i].kind = "fetch" /\ inflight[i].awaiting = "json"
    /\ Complete(i, catchError(SyntaxError))

\* await response.json() resolves with `data`: the rest of the try block.
JsonParsed(i, data) ==
    /\ i \in 1..Len(inflight)
    /\ inflight[i].kind = "fetch" /\ inflight[i].awaiting = "json"
    /\ Complete(i, resolveDistrict(inflight[i].roster, inflight[i].code, data))

\* TimerFired reading the roster of the latest render.
TimerFired_LatestRoster(i) ==
    /\ i \in 1..Len(inflight)
    /\ inflight[i].kind = "timer"
    /\ Complete(i, localSearch(allMPs, inflight[i].query))

\* The 300 ms timer fires.
TimerFired(i) ==
    /\ i \in 1..Len(inflight)
    /\ inflight[i].kind = "timer"
    /\ Complete(i, localSearch(inflight[i].roster, inflight[i].query))

\* selectMP without setError('').
selectMP_KeepsError(selectedMP) ==
    /\ mp' = <<selectedMP>>
    /\ suggestions' = <<>>
    /\ searchInput' = selectedMP.fullName
    /\ tracked' = trackEvent("Search MP", selectedMP.fullName, selectedMP.constituency)
    /\ UNCHANGED <<error, loading, allMPs, usedPostalCode, rosterLoad, inflight>>
    /\ NoPageEffect

\* <button onClick={() => selectMP(suggestion)}>
selectMP(selectedMP) ==
    /\ mp' = <<selectedMP>>
    /\ suggestions' = <<>>
    /\ error' = NoError
    /\ searchInput' = selectedMP.fullName
    /\ tracked' = trackEvent("Search MP", selectedMP.fullName, selectedMP.constituency)
    /\ UNCHANGED <<loading, allMPs, usedPostalCode, rosterLoad, inflight>>
    /\ NoPageEffect

ClickSuggestion(k) ==
    /\ k \in 1..Len(suggestions)
    /\ selectMP(suggestions[k])

-----------------------------------------------------------------------------
(* The rest of the page: the other two loads, the email counter, the email   *)
(* links, sharing, and the protests drawer with its lightbox.                *)

\* What the steps below leave alone of the search session.
searchVars == <<searchInput, mp, loading, error, allMPs, suggestions, usedPostalCode,
                rosterLoad, inflight>>

\* TemplatesLoaded chained after the roster load.
TemplatesLoaded_AfterRoster(data) ==
    /\ rosterLoad = "done"
    /\ templatesLoad = "pending"
    /\ templatesLoad' = "done"
    /\ emailTemplates' = <<data>>
    /\ tracked' = <<>> /\ mailto' = <<>>
    /\ UNCHANGED <<searchVars, emailCount, protestsDrawerOpen, protests, lightboxImage,
                   protestsLoad, countFetches, sharesPending>>

\* fetch(email-templates.json).then(res => res.json()).then(data => setEmailTemplates(data))
TemplatesLoaded(data) ==
    /\ templatesLoad = "pending"
    /\ templatesLoad' = "done"
    /\ emailTemplates' = <<data>>
    /\ tracked' = <<>> /\ mailto' = <<>>
    /\ UNCHANGED <<searchVars, emailCount, protestsDrawerOpen, protests, lightboxImage,
                   protestsLoad, countFetches, sharesPending>>

\* .catch(err => console.error('Failed to load email templates:', err))
TemplatesLoadFailed ==
    /\ templatesLoad = "pending"
    /\ templatesLoad' = "failed"
    /\ tracked' = <<>> /\ mailto' = <<>>
    /\ UNCHANGED <<searchVars, emailTemplates, emailCount, protestsDrawerOpen, protests,
                   lightboxImage, protestsLoad, countFetches, sharesPending>>

\* fetch(protests.json).then(res => res.json()).then(data => setProtests(data.protests || []))
ProtestsLoaded(data) ==
    /\ protestsLoad = "pending"
    /\ protestsLoad' = "done"
    /\ protests' = IF "protests" \in DOMAIN data THEN data.protests ELSE <<>>
    /\ tracked' = <<>> /\ mailto' = <<>>
    /\ UNCHANGED <<searchVars, emailTemplates, emailCount, protestsDrawerOpen, lightboxImage,
                   templatesLoad, countFetches, sharesPending>>

\* .catch(err => console.error('Failed to load protests:', err))
ProtestsLoadFailed ==
    /\ protestsLoad = "pending"
    /\ protestsLoad' = "failed"
    /\ tracked' = <<>> /\ mailto' = <<>>
    /\ UNCHANGED <<searchVars, emailTemplates, emailCount, protestsDrawerOpen, protests,
                   lightboxImage, templatesLoad, countFetches, sharesPending>>

\* setInterval(fetchEmailCount, 30000): one more fetch of the sheet.
PollTick ==
    /\ countFetches < MaxCountFetches
    /\ countFetches' = countFetches + 1
    /\ tracked' = <<>> /\ mailto' = <<>>
    /\ UNCHANGED <<searchVars, emailTemplates, emailCount, protestsDrawerOpen, protests,
                   lightboxImage, templatesLoad, protestsLoad, sharesPending>>

\* fetchEmailCount: .then(res => res.text()).then(csvText => { ... setEmailCount(count) })
EmailCountLoaded(csvText) ==
    /\ countFetches > 0
    /\ countFetches' = countFetches - 1
    /\ emailCount' = <<countEmails(csvText)>>
    /\ tracked' = <<>> /\ mailto' = <<>>
    /\ UNCHANGED <<searchVars, emailTemplates, protestsDrawerOpen, protests, lightboxImage,
                   templatesLoad, protestsLoad, sharesPending>>

\* fetchEmailCount: .catch(err => { console.error(...); setEmailCount(null) })
EmailCountFailed ==
    /\ countFetches > 0
    /\ countFetches' = countFetches - 1
    /\ emailCount' = <<>>
    /\ tracked' = <<>> /\ mailto' = <<>>
    /\ UNCHANGED <<searchVars, emailTemplates, protestsDrawerOpen, protests, lightboxImage,
                   templatesLoad, protestsLoad, sharesPending>>

\* TrackingSettled with the failure reported to the visitor.
TrackingSettled_ShowsFailure(ok) ==
    /\ tracked # <<>>
    /\ tracked' = <<>> /\ mailto' = <<>>
    /\ error' = IF ok THEN error ELSE Message(NetworkError.message, <<>>, 0)
    /\ UNCHANGED <<searchInput, mp, loading, allMPs, suggestions, usedPostalCode,
                   rosterLoad, inflight, pageVars>>

\* trackEvent's POST settles: fulfilled, nothing awaits it; rejected, .catch(() => {}).
TrackingSettled(ok) ==
    /\ tracked # <<>>
    /\ tracked' = <<>> /\ mailto' = <<>>
    /\ UNCHANGED <<searchVars, pageVars>>

\* <a href={createMailtoLink(mp, language)} onClick={() => trackEvent(...)}>: the link
\* as rendered with one draw of Math.random() and one reading of the clock; the French
\* link is rendered for a Quebec MP only.
ClickEmail(language, random, now, zone) ==
    /\ mp # <<>>
    /\ language = "fr" => toLowerCase(mp[1].province) = toLowerCase(Quebec)
    /\ mailto' = <<createMailtoLink(mp[1], language, emailTemplates, random, now, zone)>>
    /\ tracked' = trackEvent(IF language = "fr" THEN "Send email (French)" ELSE "Send email",
                             mp[1].fullName, mp[1].constituency)
    /\ UNCHANGED <<searchVars, pageVars>>

\* handleShare up to its await, or to its end.  With navigator.share the
\* handler is suspended at await navigator.share(shareData) and has changed
\* nothing.  Without it the Twitter window is opened and the event is posted
\* at once; a browser with a share pending has navigator.share.
handleShare(canShare) ==
    /\ emailCount # <<>>
    /\ IF canShare THEN sharesPending < MaxShares ELSE sharesPending = 0
    /\ sharesPending' = IF canShare THEN sharesPending + 1 ELSE sharesPending
    /\ tracked' = IF canShare THEN <<>>
                  ELSE trackEvent("Share campaign (Twitter fallback)", <<>>, <<>>)
    /\ mailto' = <<>>
    /\ UNCHANGED <<searchVars, emailTemplates, emailCount, protestsDrawerOpen, protests,
                   lightboxImage, templatesLoad, protestsLoad, countFetches>>

\* The promise of navigator.share settles: resolved, trackEvent('Share campaign');
\* rejected, the catch block logs.  The button need no longer be rendered.
ShareSettled(shared) ==
    /\ sharesPending > 0
    /\ sharesPending' = sharesPending - 1
    /\ tracked' = IF shared THEN trackEvent("Share campaign", <<>>, <<>>) ELSE <<>>
    /\ mailto' = <<>>
    /\ UNCHANGED <<searchVars, emailTemplates, emailCount, protestsDrawerOpen, protests,
                   lightboxImage, templatesLoad, protestsLoad, countFetches>>

\* The drawer's backdrop and its X button: onClick={() => setProtestsDrawerOpen(false)}
CloseDrawer ==
    /\ protestsDrawerOpen
    /\ protestsDrawerOpen' = FALSE
    /\ tracked' = <<>> /\ mailto' = <<>>
    /\ UNCHANGED <<searchVars, emailTemplates, emailCount, protests, lightboxImage,
                   templatesLoad, protestsLoad, countFetches, sharesPending>>

\* A protest's image in the drawer: setLightboxImage(protest.image); trackEvent(...)
ShowLightbox(k) ==
    /\ protestsDrawerOpen
    /\ k \in 1..Len(protests)
    /\ "image" \in DOMAIN protests[k] /\ protests[k].image # <<>>
    /\ lightboxImage' = <<protests[k].image>>
    /\ tracked' = trackEvent("View protest image", protests[k].title, <<>>)
    /\ mailto' = <<>>
    /\ UNCHANGED <<searchVars, emailTemplates, emailCount, protestsDrawerOpen, protests,
                   templatesLoad, protestsLoad, countFetches, sharesPending>>

\* The lightbox's backdrop and its Close button: onClick={() => setLightboxImage(null)}
CloseLightbox ==
    /\ lightboxImage # <<>>
    /\ lightboxImage' = <<>>
    /\ tracked' = <<>> /\ mailto' = <<>>
    /\ UNCHANGED <<searchVars, emailTemplates, emailCount, protestsDrawerOpen, protests,
                   templatesLoad, protestsLoad, countFetches, sharesPending>>

\* The search session: the roster load and the search handlers, with every
\* input of Inputs, Rosters and ResponseBodies.
Next ==
    \/ \E data \in Rosters : RosterLoaded(data)
    \/ RosterLoadFailed
    \/ \E value \in Inputs : SetSearchInput(value)
    \/ ClickFindMyMP
    \/ \E key \in {"Enter", "a"} : handleKeyPress(key)
    \/ \E i \in 1..Len(inflight) : FetchRejected(i)
    \/ \E i \in 1..Len(inflight), ok \in BOOLEAN : FetchResponded(i, ok)
    \/ \E i \in 1..Len(inflight) : JsonRejected(i)
    \/ \E i \in 1..Len(inflight), data \in ResponseBodies : JsonParsed(i, data)
    \/ \E i \in 1..Len(inflight) : TimerFired(i)
    \/ \E k \in 1..Len(suggestions) : ClickSuggestion(k)

\* The geocoding fetch settles, its body is read, the timer fires.
FetchSettles ==
    \E i \in 1..Len(inflight) : FetchRejected(i) \/ \E ok \in BOOLEAN : FetchResponded(i, ok)

JsonSettles ==
    \E i \in 1..Len(inflight) : JsonRejected(i) \/ \E data \in ResponseBodies : JsonParsed(i, data)

TimerFires == \E i \in 1..Len(inflight) : TimerFired(i)

Spec == Init /\ [][Next]_vars

\* Spec, with every pending fetch, body read and timer eventually settling.
FairSpec ==
    Spec /\ WF_vars(FetchSettles) /\ WF_vars(JsonSettles) /\ WF_vars(TimerFires)

-----------------------------------------------------------------------------
(* The email links.  The searches bring up each kind of result: a row found  *)
(* by name, a row found by postal code and the default contact for a vacant  *)
(* seat; the links are then opened in each language, with each draw of       *)
(* Math.random() and each clock reading.                                     *)

\* A roster row of the default contact's name for a Quebec riding.
CarneyInQuebecMP == MkMP(<<"M","a","r","k">>, <<"C","a","r","n","e","y">>,
                         <<"B","e","a","u","c","e">>, Quebec)

ComposerRosters == {<<CarneyMP, JaneDoeMP>>, <<CarneyInQuebecMP, NaqviMP>>}

ComposerInputs ==
    {BaseCode, <<"d","o","e">>, <<"c","a","r","n","e","y">>, <<"n","a","q","v","i">>}

ComposerBodies ==
    {[isNull |-> FALSE, boundaries_concordance |-> <<Boundary(FederalSetName, d)>>] :
        d \in {<<"N","E","P","E","A","N">>, <<"V","a","c","a","n","t"," ","R","i","d","i","n","g">>}}

Languages == {"en", "fr"}

ComposerNext ==
    \/ \E data \in ComposerRosters : RosterLoaded(data)
    \/ \E data \in TemplateSets : TemplatesLoaded(data)
    \/ TemplatesLoadFailed
    \/ \E value \in ComposerInputs : SetSearchInput(value)
    \/ ClickFindMyMP
    \/ \E i \in 1..Len(inflight) : FetchResponded(i, TRUE)
    \/ \E i \in 1..Len(inflight), data \in ComposerBodies : JsonParsed(i, data)
    \/ \E i \in 1..Len(inflight) : TimerFired(i)
    \/ \E language \in Languages, random \in 0..(RandomSteps - 1), now \in Instants,
          zone \in Zones : ClickEmail(language, random, now, zone)

ComposerSpec == Init /\ [][ComposerNext]_vars

-----------------------------------------------------------------------------
(* The page around the search: the protests load, the email counter and its  *)
(* poll, the tracking POSTs and sharing, with searches of every outcome.     *)

PageRosters == {<<CarneyMP, JaneDoeMP>>, <<NaqviMP, FortierMP>>}

PageInputs ==
    {<<>>, <<"a">>, BaseCode, <<"d","o","e">>, <<"o","t","t","a","w","a">>, <<"z","z">>}

PageBodies ==
    {[isNull |-> FALSE]}
    \cup {[isNull |-> FALSE, boundaries_concordance |-> <<Boundary(FederalSetName, d)>>] :
            d \in {<<"N","E","P","E","A","N">>,
                   <<"V","a","c","a","n","t"," ","R","i","d","i","n","g">>}}

PageNext ==
    \/ \E data \in PageRosters : RosterLoaded(data)
    \/ \E data \in ProtestFiles : ProtestsLoaded(data)
    \/ ProtestsLoadFailed
    \/ PollTick
    \/ \E csvText \in CsvTexts : EmailCountLoaded(csvText)
    \/ EmailCountFailed
    \/ \E ok \in BOOLEAN : TrackingSettled(ok)
    \/ \E canShare \in BOOLEAN : handleShare(canShare)
    \/ \E shared \in BOOLEAN : ShareSettled(shared)
    \/ \E value \in PageInputs : SetSearchInput(value)
    \/ ClickFindMyMP
    \/ handleKeyPress("Enter")
    \/ \E i \in 1..Len(inflight) : FetchRejected(i)
    \/ \E i \in 1..Len(inflight), ok \in BOOLEAN : FetchResponded(i, ok)
    \/ \E i \in 1..Len(inflight) : JsonRejected(i)
    \/ \E i \in 1..Len(inflight), data \in PageBodies : JsonParsed(i, data)
    \/ \E i \in 1..Len(inflight) : TimerFired(i)
    \/ \E k \in 1..Len(suggestions) : ClickSuggestion(k)

PageSpec == Init /\ [][PageNext]_vars

-----------------------------------------------------------------------------
(* The mount effect alone: the three loads and the counter's fetches in any  *)
(* order, each succeeding or failing, with a submit of the empty search box  *)
(* so that a message is on display.                                          *)

LoadNext ==
    \/ \E data \in PageRosters : RosterLoaded(data)
    \/ RosterLoadFailed
    \/ \E data \in TemplateSets : TemplatesLoaded(data)
    \/ TemplatesLoadFailed
    \/ \E data \in ProtestFiles : ProtestsLoaded(data)
    \/ ProtestsLoadFailed
    \/ PollTick
    \/ \E csvText \in CsvTexts : EmailCountLoaded(csvText)
    \/ EmailCountFailed
    \/ ClickFindMyMP

LoadSpec == Init /\ [][LoadNext]_vars

\* The handlers of the drawer and the lightbox.
DrawerNext ==
    \/ CloseDrawer
    \/ \E k \in 1..Len(protests) : ShowLightbox(k)
    \/ CloseLightbox

\* Every step of the component.
ComponentNext == Next \/ ComposerNext \/ PageNext \/ DrawerNext

-----------------------------------------------------------------------------
(* Properties of the search session.                                         *)

\* A step in which a pending search completes.
SearchCompletes == loading /\ ~loading'

isDefaultResult(m) == m # <<>> /\ "isDefault" \in DOMAIN m[1] /\ m[1].isDefault

lowerEq(a, b) == toLowerCase(a) = toLowerCase(b)

\* Rows of `roster` whose constituency is `name` up to letter case.
exactRows(roster, name) == {k \in 1..Len(roster) : lowerEq(roster[k].constituency, name)}

\* Rows of `roster` whose constituency starts with the part of `name` before its em-dash.
prefixRows(roster, name) ==
    {k \in 1..Len(roster) :
        startsWith(toLowerCase(roster[k].constituency), constituencyFirstPart(name))}

carneyRows(roster) == {k \in 1..Len(roster) : roster[k].fullName = MarkCarney}

Min(S) == CHOOSE k \in S : \A j \in S : k <= j

Range(arr) == {arr[i] : i \in 1..Len(arr)}

\* The bodies in which the service names a federal district, and that name.
namesDistrict(data) ==
    /\ ~data.isNull
    /\ \E k \in 1..Len(boundariesOf(data)) :
          /\ isFederal(boundariesOf(data)[k])
          /\ \A j \in 1..(k - 1) : ~isFederal(boundariesOf(data)[j])
          /\ "name" \in DOMAIN boundariesOf(data)[k]

districtName(data) ==
    boundariesOf(data)[Min({k \in 1..Len(boundariesOf(data)) :
                              isFederal(boundariesOf(data)[k])})].name

\* C1 (as stated): when a search completes, at most one of the single result,
\* the suggestion list and the error message is populated.
C1_AtMostOneOutput ==
    [][SearchCompletes =>
          Cardinality({o \in {"mp", "suggestions", "error"} :
                          \/ o = "mp" /\ mp' # <<>>
                          \/ o = "suggestions" /\ suggestions' # <<>>
                          \/ o = "error" /\ error' # NoError}) <= 1]_vars

\* C1 (amended): when a search completes, the single result and the suggestion
\* list are never both populated; the error message is populated together with
\* a result only as the vacant-seat note of a default-contact result, and
\* together with a suggestion list only as the "Found n matches" prompt.
C1_OutputsExclusive ==
    [][SearchCompletes =>
          /\ ~(mp' # <<>> /\ suggestions' # <<>>)
          /\ (mp' # <<>> /\ error' # NoError) =>
                /\ isDefaultResult(mp')
                /\ error' = VacantSeatNote(mp'[1].actualConstituency)
          /\ (suggestions' # <<>> /\ error' # NoError) =>
                error'.text = ManyMatchesPrompt(0).text]_vars

C1_Witness ==
    /\ ~loading /\ inflight = <<>> /\ usedPostalCode
    /\ isDefaultResult(mp)
    /\ error = VacantSeatNote(mp[1].actualConstituency)
    /\ suggestions = <<>>

\* C2: a submit whose trimmed query is empty or a single character sets a
\* validation error and starts nothing: no request or timer is added to the
\* pending searches, no tracking event is sent and loading stays false.
C2_ValidationQueriesNothing ==
    [][((ClickFindMyMP \/ handleKeyPress("Enter")) /\ Len(trim(searchInput)) < 2) =>
          /\ error' \in {EmptyQueryError, ShortQueryError}
          /\ (error' = EmptyQueryError) <=> (trim(searchInput) = <<>>)
          /\ inflight' = inflight
          /\ tracked' = <<>>
          /\ ~loading']_vars

C2_Witness ==
    /\ error = ShortQueryError
    /\ Len(trim(searchInput)) = 1
    /\ Len(searchInput) > 1
    /\ ~loading /\ inflight = <<>>

\* C3: on the postal-code path, when the roster the search runs on has a row
\* whose constituency equals the district name up to letter case, the result is
\* the first such row: not flagged isDefault, and with no vacancy note.
C3_ExactMatchWins ==
    [][SearchCompletes =>
          \A i \in 1..Len(inflight), data \in ResponseBodies :
             (/\ namesDistrict(data)
              /\ exactRows(inflight[i].roster, districtName(data)) # {}
              /\ JsonParsed(i, data)) =>
                /\ mp' = <<inflight[i].roster[Min(exactRows(inflight[i].roster,
                                                            districtName(data)))]>>
                /\ ~isDefaultResult(mp')
                /\ "isDefault" \notin DOMAIN mp'[1]
                /\ error' = NoError]_vars

\* The exact match is the second row, after a row the prefix match would take.
C3_Witness ==
    /\ ~loading /\ usedPostalCode
    /\ allMPs = <<NaqviMP, FortierMP>>
    /\ mp = <<FortierMP>>
    /\ error = NoError

\* C4: on the postal-code path, when the district name has neither an exact nor
\* a prefix match in the roster and the roster has a row named Mark Carney, the
\* result is a copy of the first such row with isDefault = TRUE,
\* actualConstituency = the district name as returned and postalCode = the query
\* upper-cased with all whitespace removed; the roster is unchanged.
C4_DefaultFallback ==
    [][SearchCompletes =>
          \A i \in 1..Len(inflight), data \in ResponseBodies :
          (/\ namesDistrict(data)
           /\ carneyRows(inflight[i].roster) # {}
           /\ exactRows(inflight[i].roster, districtName(data)) = {}
           /\ prefixRows(inflight[i].roster, districtName(data)) = {}
           /\ JsonParsed(i, data)) =>
             LET row == inflight[i].roster[Min(carneyRows(inflight[i].roster))]
             IN  /\ mp' # <<>>
                 /\ DOMAIN mp'[1] = DOMAIN row \cup {"isDefault", "actualConstituency",
                                                     "postalCode"}
                 /\ \A f \in DOMAIN row : mp'[1][f] = row[f]
                 /\ mp'[1].isDefault = TRUE
                 /\ mp'[1].actualConstituency = districtName(data)
                 /\ mp'[1].postalCode = removeWhitespace(toUpperCase(inflight[i].query))
                 /\ \A c \in 1..Len(mp'[1].postalCode) : mp'[1].postalCode[c] \notin Whitespace
                 /\ allMPs' = allMPs
                 /\ \A k \in 1..Len(allMPs') : "isDefault" \notin DOMAIN allMPs'[k]]_vars

\* The fallback happened for a query typed in lower case with a space in it.
C4_Witness ==
    /\ ~loading /\ usedPostalCode
    /\ isDefaultResult(mp)
    /\ mp[1].postalCode = BaseCode
    /\ searchInput # BaseCode
    /\ mp[1].actualConstituency # mp[1].constituency
    /\ \E k \in 1..Len(allMPs) : allMPs[k] = CarneyMP

\* The rows of `roster` that `query` matches, by index.
matchingRows(roster, query) ==
    {k \in 1..Len(roster) : matchesText(roster[k], toLowerCase(query))}

\* The j-th matching row in roster order.
nthMatch(roster, query, j) ==
    roster[CHOOSE k \in matchingRows(roster, query) :
              Cardinality({h \in matchingRows(roster, query) : h <= k}) = j]

\* C5: on the text path, with n the number of roster rows the query matches:
\* n = 0 gives the not-found error, no result and no suggestions; n = 1 gives
\* that row as the result and no suggestions; n >= 2 gives as suggestions the
\* first min(n, 10) matching rows in roster order and no result.  No reachable
\* state has more than 10 suggestions.
C5_TextOutcomeByHits ==
    /\ [](Len(suggestions) <= 10)
    /\ [][\A i \in 1..Len(inflight) : TimerFired(i) =>
            LET roster == inflight[i].roster
                query == inflight[i].query
                n == Cardinality(matchingRows(roster, query))
            IN  /\ n = 0 => /\ error' = NotFoundError
                            /\ mp' = <<>> /\ suggestions' = <<>>
                /\ n = 1 => /\ mp' = <<nthMatch(roster, query, 1)>>
                            /\ suggestions' = <<>>
                /\ n >= 2 => /\ mp' = <<>>
                             /\ Len(suggestions') = (IF n < 10 THEN n ELSE 10)
                             /\ \A j \in 1..Len(suggestions') :
                                   suggestions'[j] = nthMatch(roster, query, j)]_vars

\* More than 10 rows matched and 10 are suggested.
C5_Witness ==
    /\ ~loading
    /\ Len(suggestions) = 10
    /\ error.n > 10
    /\ Cardinality(matchingRows(allMPs, trim(searchInput))) = error.n

upperCased(m) ==
    [f \in DOMAIN m |->
        IF f \in {"fullName", "constituency", "province", "lastName", "firstName"}
        THEN toUpperCase(m[f]) ELSE m[f]]

\* C6: text search does not depend on letter case: a query that differs from
\* the submitted one only in case selects the same rows and gives the same
\* result, suggestions and message, and a row matches a query exactly when the
\* row with its fields upper-cased does.
C6_TextSearchIgnoresCase ==
    [][SearchCompletes =>
          \A i \in 1..Len(inflight) : TimerFired(i) =>
             LET roster == inflight[i].roster
                 query == inflight[i].query
             IN  /\ \A v \in Inputs :
                       (/\ trim(v) # query
                        /\ lowerEq(trim(v), query)) =>
                          /\ textResults(roster, trim(v)) = textResults(roster, query)
                          /\ LET other == localSearch(roster, trim(v))
                             IN  /\ mp' = (IF other.setMp = <<>> THEN mp
                                           ELSE other.setMp[1])
                                 /\ suggestions' = (IF other.setSuggestions = <<>>
                                                    THEN suggestions
                                                    ELSE other.setSuggestions[1])
                                 /\ error' = (IF other.setError = <<>> THEN error
                                              ELSE other.setError[1])
                 /\ \A k \in 1..Len(roster) :
                       (roster[k] \in Range(textResults(roster, query)))
                          <=> (upperCased(roster[k])
                                 \in Range(textResults(<<upperCased(roster[k])>>, query)))]_vars

\* An upper-case query found the row a lower-case one finds.
C6_Witness ==
    /\ ~loading /\ ~usedPostalCode
    /\ searchInput = <<"D","O","E">>
    /\ mp = <<JaneDoeMP>>
    /\ tracked # <<>>

\* A valid postal code: letter digit letter digit letter digit.
validCode(s) ==
    /\ Len(s) = 6
    /\ \A k \in {1, 3, 5} : s[k] \in Letters
    /\ \A k \in {2, 4, 6} : s[k] \in Digits

normalized(query) == removeWhitespace(toUpperCase(query))

\* The whitespace inside `query` is at most one character, after the third.
oneMiddleSpace(query) == {k \in 1..Len(query) : query[k] \in Whitespace} \subseteq {4}

\* C7 (as stated): every accepted query that is a valid postal code up to
\* letter case and whitespace between its characters is looked up as a postal
\* code, with the normalized code sent to the geocoding service.
C7_AnyWhitespace ==
    \A i \in 1..Len(inflight) :
        validCode(normalized(inflight[i].query)) =>
            /\ inflight[i].kind = "fetch"
            /\ inflight[i].code = normalized(inflight[i].query)

\* C7 (amended): every accepted query that is a valid postal code up to letter
\* case and at most one whitespace character between its third and fourth
\* characters is looked up as a postal code, with the normalized code sent to
\* the geocoding service; with whitespace anywhere else between its characters
\* it is searched as text.
C7_CaseAndMiddleSpace ==
    \A i \in 1..Len(inflight) :
        validCode(normalized(inflight[i].query)) =>
            IF oneMiddleSpace(inflight[i].query)
            THEN /\ inflight[i].kind = "fetch"
                 /\ inflight[i].code = normalized(inflight[i].query)
                 /\ usedPostalCode
            ELSE inflight[i].kind = "timer"

C7_Witness ==
    \E i \in 1..Len(inflight) :
        /\ inflight[i].kind = "fetch"
        /\ inflight[i].query = <<"k","1","a"," ","0","a","6">>
        /\ inflight[i].code = BaseCode
        /\ loading /\ usedPostalCode

LookupFailed == mp' = <<>> /\ suggestions' = <<>> /\ ~loading' /\ error' # NoError

\* C8: a non-success HTTP status, a body whose boundary list has no entry with
\* 'federal' in its boundary_set_name, and a district that matches no roster
\* row when the roster has no default contact each end the search with no
\* result, no suggestions, loading false and a message, and the three messages
\* differ from one another.
C8_LookupFailures ==
    [][SearchCompletes =>
          \A i \in 1..Len(inflight) :
             /\ Cardinality({HttpStatusError.message, NoFederalDistrictError.message,
                             NoRosterMatchError(<<>>).text}) = 3
             /\ FetchResponded(i, FALSE) =>
                   LookupFailed /\ error'.text = HttpStatusError.message
             /\ \A data \in ResponseBodies :
                   /\ (/\ ~data.isNull
                       /\ \A k \in 1..Len(boundariesOf(data)) : ~isFederal(boundariesOf(data)[k])
                       /\ JsonParsed(i, data)) =>
                         LookupFailed /\ error'.text = NoFederalDistrictError.message
                   /\ (/\ namesDistrict(data)
                       /\ carneyRows(inflight[i].roster) = {}
                       /\ exactRows(inflight[i].roster, districtName(data)) = {}
                       /\ prefixRows(inflight[i].roster, districtName(data)) = {}
                       /\ JsonParsed(i, data)) =>
                         /\ LookupFailed
                         /\ error'.text = NoRosterMatchError(<<>>).text
                         /\ error'.name = districtName(data)]_vars

\* The district matched no row of a roster without the default contact.
C8_Witness ==
    /\ ~loading /\ usedPostalCode /\ inflight = <<>>
    /\ mp = <<>> /\ suggestions = <<>>
    /\ allMPs # <<>>
    /\ error.name # <<>>
    /\ error = NoRosterMatchError(error.name)

\* C9: selecting a suggestion sets the result to the selected row, empties the
\* suggestion list, clears the error and sets the search box to the row's
\* fullName; it starts no request and no timer and leaves loading false.
C9_SelectResolvesDirectly ==
    [][\A k \in 1..Len(suggestions) : ClickSuggestion(k) =>
          /\ mp' = <<suggestions[k]>>
          /\ suggestions' = <<>>
          /\ error' = NoError
          /\ searchInput' = suggestions[k].fullName
          /\ inflight' = inflight
          /\ loading' = loading /\ ~loading']_vars

\* A row other than the first was selected from a list.
C9_Witness ==
    /\ mp # <<>> /\ suggestions = <<>> /\ error = NoError /\ ~loading
    /\ searchInput = mp[1].fullName
    /\ tracked = trackEvent("Search MP", mp[1].fullName, mp[1].constituency)
    /\ Len(allMPs) >= 2 /\ mp[1] = allMPs[2]

\* C10: every accepted search sets loading, and loading does not stay true:
\* once the fetch settles (fulfilled or rejected, any status, any body) or the
\* timer fires, the session is back with loading false and a result, a
\* suggestion list or an error.
C10_SearchSettles ==
    /\ [][((ClickFindMyMP \/ handleKeyPress("Enter")) /\ Len(trim(searchInput)) >= 2) =>
             loading' /\ Len(inflight') = Len(inflight) + 1]_vars
    /\ loading ~> (/\ ~loading
                   /\ (mp # <<>> \/ suggestions # <<>> \/ error # NoError))

\* A search whose body could not be parsed has ended.
C10_Witness ==
    /\ ~loading /\ usedPostalCode /\ inflight = <<>>
    /\ error.text = SyntaxError.message

-----------------------------------------------------------------------------
(* Properties of the email links.                                            *)

\* A step that opens an email link, and the language of that link.
EmailOpens == mailto' # <<>>

languageOpened == IF mailto'[1].subject = SubjectFrench THEN "fr" ELSE "en"

\* The text a mail client reads out of the link's body parameter: every %XX
\* run is a byte, a byte 80..BF continues the character of the byte before it,
\* and the other characters stand for themselves.
decodeURIComponent(s) ==
    LET n == Len(s)
        inByte(i) == (i > 1 /\ s[i - 1] = "%") \/ (i > 2 /\ s[i - 2] = "%")
        continues(i) == s[i] = "%" /\ s[i + 1] \in {"8", "9", "A", "B"}
        \* the end of the character that starts at i
        endOf(i) == IF s[i] # "%" THEN i
                    ELSE IF i + 3 <= n /\ continues(i + 3)
                         THEN (IF i + 6 <= n /\ continues(i + 6) THEN i + 8 ELSE i + 5)
                         ELSE i + 2
        charAt(i) == IF s[i] # "%" THEN s[i]
                     ELSE CHOOSE c \in DOMAIN PercentCode : PercentCode[c] = SubSeq(s, i, endOf(i))
        marked == [i \in 1..n |-> IF inByte(i) \/ continues(i) THEN "" ELSE charAt(i)]
    IN  SelectSeq(marked, LAMBDA c : c # "")

\* The two characters that tell the template bodies apart.
tagOf(body) == SubSeq(body, 1, 2)

tagsOf(list) == {tagOf(list[k].body) : k \in 1..Len(list)}

\* C11 (as stated): with the templates loaded, the body of an opened link comes
\* from the prime-minister template when the MP's fullName is Mark Carney,
\* whatever the language; otherwise from the French list when the language is
\* French; otherwise from the regular list.
C11_PrimeMinisterFirst ==
    [][(EmailOpens /\ emailTemplates # <<>>) =>
          LET tag == tagOf(decodeURIComponent(mailto'[1].body))
              t == emailTemplates[1]
          IN  IF mp[1].fullName = MarkCarney THEN tag = tagOf(t.primeMinisterTemplate.body)
              ELSE IF languageOpened = "fr" THEN tag \in tagsOf(t.frenchTemplates)
              ELSE tag \in tagsOf(t.regularTemplates)]_vars

\* C11 (amended): with the templates loaded, the body of an opened link comes
\* from the French list when the language is French, whatever the MP;
\* otherwise from the prime-minister template when the MP's fullName is Mark
\* Carney; otherwise from the regular list.
C11_LanguageFirst ==
    [][(EmailOpens /\ emailTemplates # <<>>) =>
          LET tag == tagOf(decodeURIComponent(mailto'[1].body))
              t == emailTemplates[1]
          IN  IF languageOpened = "fr" THEN tag \in tagsOf(t.frenchTemplates)
              ELSE IF mp[1].fullName = MarkCarney THEN tag = tagOf(t.primeMinisterTemplate.body)
              ELSE tag \in tagsOf(t.regularTemplates)]_vars

\* The French link of a Mark Carney result was opened, with a French template.
C11_Witness ==
    /\ mailto # <<>> /\ emailTemplates # <<>>
    /\ mailto[1].subject = SubjectFrench
    /\ mp # <<>> /\ mp[1].fullName = MarkCarney
    /\ tagOf(decodeURIComponent(mailto[1].body)) \in tagsOf(emailTemplates[1].frenchTemplates)

\* C12: the body of every opened email link contains no literal [MP_NAME],
\* [CONSTITUENCY_INFO] or [DAYS_COUNT], however often the template uses them.
C12_NoPlaceholderLeft ==
    mailto # <<>> =>
        LET body == decodeURIComponent(mailto[1].body)
        IN  /\ ~includes(body, MP_NAME)
            /\ ~includes(body, CONSTITUENCY_INFO)
            /\ ~includes(body, DAYS_COUNT)

\* The text "day n." a template with the line "day [DAYS_COUNT]." turns into.
dayLine(n) == <<"d","a","y"," ">> \o toString(n) \o <<".">>

\* C13: the day count put into an opened email is the number of calendar days
\* from 2026-01-08 to today's local date, for every time of day and every
\* zone: 0 on the start date, 1 on the next day, negative before it.
C13_CalendarDays ==
    [][EmailOpens =>
          \A language \in Languages, random \in 0..(RandomSteps - 1), now \in Instants,
             zone \in Zones :
                ClickEmail(language, random, now, zone) =>
                    LET body == decodeURIComponent(mailto'[1].body)
                    IN  includes(body, <<"d","a","y"," ">>) =>
                            includes(body, dayLine(localDay(zone, now)))]_vars

-----------------------------------------------------------------------------
(* Properties of the page around the search.                                 *)

\* The rows of a sheet: the lines of its text without surrounding whitespace.
rowsOf(csvText) == split(trim(csvText), "\n")

\* The second comma-separated column of a row, <<>> when the row has no comma.
secondColumn(row) ==
    LET commas == {i \in 1..Len(row) : row[i] = ","}
        first == Min(commas)
        later == {i \in commas : i > first}
    IN  IF commas = {} THEN <<>>
        ELSE <<SubSeq(row, first + 1, IF later = {} THEN Len(row) ELSE Min(later) - 1)>>

\* A column without one pair of surrounding double quotes.
unquoted(column) ==
    IF Len(column) >= 2 /\ Head(column) = "\"" /\ column[Len(column)] = "\""
    THEN SubSeq(column, 2, Len(column) - 1) ELSE column

\* The rows after the header whose second column says Send email.
sendEmailRows(csvText) ==
    LET rows == rowsOf(csvText)
    IN  {i \in 2..Len(rows) :
            LET column == secondColumn(rows[i])
            IN  column # <<>> /\ unquoted(trim(column[1])) = SendEmail}

\* The number of such rows, for each sheet text.
sendEmailCount == [csvText \in CsvTexts |-> Cardinality(sendEmailRows(csvText))]

\* C14: a fetched sheet sets the count to the number of rows after the header
\* whose second column, trimmed and without one pair of surrounding quotes, is
\* exactly "Send email": 1 for a header and two rows of which one is such a
\* row, 0 for a header alone and for an empty sheet; a failed fetch sets the
\* count to null; neither changes any state of the search.
C14_CountsSendEmailRows ==
    [][/\ \A csvText \in CsvTexts :
             EmailCountLoaded(csvText) =>
                /\ emailCount' = <<sendEmailCount[csvText]>>
                /\ csvText = CsvTwoRows => emailCount' = <<1>>
                /\ csvText \in {CsvHeader, <<>>} => emailCount' = <<0>>
                /\ UNCHANGED <<searchInput, mp, loading, error, allMPs, suggestions,
                               usedPostalCode, inflight>>
       /\ EmailCountFailed =>
             /\ emailCount' = <<>>
             /\ UNCHANGED <<searchInput, mp, loading, error, allMPs, suggestions,
                            usedPostalCode, inflight>>]_vars

\* A sheet with a quoted and a padded "Send email" row was counted while a
\* result was on display.
C14_Witness ==
    /\ emailCount = <<2>>
    /\ mp # <<>> /\ ~loading

\* The 'Search MP' events sent by a step.
searchEvents(events) == SelectSeq(events, LAMBDA e : e.eventType = "Search MP")

\* A step in which a pending search completes.
SearchEnds == Len(inflight') < Len(inflight)

\* C15: a step sends exactly one 'Search MP' event, naming the MP now on
\* display, when it is the completion of a search that resolved to one MP or
\* the selection of a suggestion, and sends none otherwise: not when a search
\* ends in a suggestion list, a not-found error or a lookup failure, and not
\* when a submission is refused by validation; the settling of a tracking
\* request, fulfilled or rejected, changes none of mp, suggestions, error and
\* loading.
C15_SearchTrackedOnce ==
    [][/\ IF (SearchEnds /\ mp' # <<>>) \/ (\E k \in 1..Len(suggestions) : ClickSuggestion(k))
          THEN /\ Len(searchEvents(tracked')) = 1
               /\ searchEvents(tracked')[1].mpName = mp'[1].fullName
          ELSE searchEvents(tracked') = <<>>
       /\ (SearchEnds /\ (suggestions' # <<>> \/ error' = NotFoundError \/ LookupFailed)) =>
             searchEvents(tracked') = <<>>
       /\ (~SearchEnds /\ error' \in {EmptyQueryError, ShortQueryError}) =>
             searchEvents(tracked') = <<>>
       /\ \A ok \in BOOLEAN :
             TrackingSettled(ok) => UNCHANGED <<mp, suggestions, error, loading>>]_vars

\* The event of a search answered with the default contact has just been sent.
C15_Witness ==
    /\ Len(searchEvents(tracked)) = 1
    /\ isDefaultResult(mp)
    /\ usedPostalCode /\ ~loading

\* A step of the search: a submission, a completion of the fetch or of the
\* timer, or the selection of a suggestion.
SearchAction ==
    \/ ClickFindMyMP
    \/ handleKeyPress("Enter")
    \/ \E i \in 1..Len(inflight) :
          \/ FetchRejected(i)
          \/ \E ok \in BOOLEAN : FetchResponded(i, ok)
          \/ JsonRejected(i)
          \/ TimerFired(i)
    \/ SearchEnds
    \/ \E k \in 1..Len(suggestions) : ClickSuggestion(k)

\* A step of the drawer or of the lightbox.
DrawerAction ==
    \/ CloseDrawer
    \/ \E k \in 1..Len(protests) : ShowLightbox(k)
    \/ CloseLightbox

\* C16: no step of the search changes protestsDrawerOpen or lightboxImage, no
\* step of the drawer or of the lightbox changes mp, suggestions, error,
\* loading or usedPostalCode, and so no step at all changes both a toggle and
\* one of these fields of the search.
\* The drawer is never rendered (C17), so no behaviour of the component has a
\* step of the drawer or of the lightbox: the second part holds of every
\* behaviour without one of its steps ever being taken.
C16_TogglesIndependent ==
    [][/\ SearchAction => UNCHANGED <<protestsDrawerOpen, lightboxImage>>
       /\ DrawerAction => UNCHANGED <<mp, suggestions, error, loading, usedPostalCode>>
       /\ \/ UNCHANGED <<protestsDrawerOpen, lightboxImage>>
          \/ UNCHANGED <<mp, suggestions, error, loading, usedPostalCode>>]_vars

\* C17: the drawer can be opened: in every state in which it is closed some
\* action of the component opens it (and, once open, the lightbox can be shown
\* and closed again by ShowLightbox and CloseLightbox).
C17_DrawerCanOpen ==
    protestsDrawerOpen \/ ENABLED (ComponentNext /\ protestsDrawerOpen')

-----------------------------------------------------------------------------
(* Properties of concurrent searches.                                        *)

\* C18: while loading is true neither the button nor the Enter key of the
\* input starts a search, so at most one search, a geocoding fetch or a
\* local-search timer, is pending in any reachable state, and loading is true
\* exactly while one is.
C18_OneSearchInFlight ==
    /\ Len(inflight) <= 1
    /\ loading <=> inflight # <<>>
    /\ loading => ~ENABLED ClickFindMyMP /\ ~ENABLED handleKeyPress("Enter")

\* A postal-code search is pending, its response being read,
\* the input still holding the query.
C18_Witness ==
    /\ loading
    /\ Len(inflight) = 1
    /\ inflight[1].kind = "fetch" /\ inflight[1].awaiting = "json"
    /\ trim(searchInput) = inflight[1].query

\* What a continuation may do to the session: its setter calls, for a pending
\* request.
callsOf(request) ==
    IF request.kind = "timer" THEN {localSearch(request.roster, request.query)}
    ELSE IF request.awaiting = "response"
    THEN {catchError(NetworkError), catchError(HttpStatusError)}
    ELSE {catchError(SyntaxError)}
         \cup {resolveDistrict(request.roster, request.code, data) : data \in ResponseBodies}

\* The session a search leaves when it runs alone: what searchMP resets,
\* then the continuation's setter calls, then setLoading(false).
outcomeAlone(request, calls) ==
    [mp |-> IF calls.setMp = <<>> THEN <<>> ELSE calls.setMp[1],
     suggestions |-> IF calls.setSuggestions = <<>> THEN <<>> ELSE calls.setSuggestions[1],
     error |-> IF calls.setError = <<>> THEN NoError ELSE calls.setError[1],
     usedPostalCode |-> request.kind = "fetch",
     loading |-> FALSE]

-----------------------------------------------------------------------------
(* Properties of the prefix match.                                           *)

\* The part of a district name before its first em-dash, the whole name when
\* it has none, in lower case and without surrounding whitespace.
beforeDash(name) ==
    LET dashes == {i \in 1..Len(name) : name[i] = EmDash}
    IN  trim(toLowerCase(IF dashes = {} THEN name ELSE SubSeq(name, 1, Min(dashes) - 1)))

\* Rows of `roster` whose constituency, in lower case, starts with that part.
startRows(roster, name) ==
    {k \in 1..Len(roster) :
        LET c == toLowerCase(roster[k].constituency)
        IN  /\ Len(beforeDash(name)) <= Len(c)
            /\ \A j \in 1..Len(beforeDash(name)) : c[j] = beforeDash(name)[j]}

\* C20: on the postal-code path, when no row of the roster has the district
\* name as its constituency, the result is the first row in roster order whose
\* lower-cased constituency starts with the lower-cased, trimmed part of the
\* district name before its first em-dash: an ordinary result, not flagged
\* isDefault and with no message, whether or not the roster has a default
\* contact; when a row has the district name as its constituency the result is
\* the first such row, whatever rows the prefix would take.
C20_PrefixMatch ==
    [][SearchCompletes =>
          \A i \in 1..Len(inflight), data \in ResponseBodies :
             (/\ namesDistrict(data)
              /\ JsonParsed(i, data)) =>
                LET roster == inflight[i].roster
                    exact == exactRows(roster, districtName(data))
                    starts == startRows(roster, districtName(data))
                IN  /\ (exact = {} /\ starts # {}) =>
                          /\ mp' = <<roster[Min(starts)]>>
                          /\ DOMAIN mp'[1] = DOMAIN roster[Min(starts)]
                          /\ ~isDefaultResult(mp')
                          /\ error' = NoError
                          /\ suggestions' = <<>>
                    /\ exact # {} => mp' = <<roster[Min(exact)]>>
                    /\ (exact = {} /\ starts = {}) =>
                          (mp' = <<>> \/ isDefaultResult(mp'))]_vars

\* The district "Test [em-dash]Other" was answered with the row of
\* "Test[em-dash]Riding", in a roster that has the default contact too.
C20_Witness ==
    /\ ~loading /\ usedPostalCode
    /\ mp = <<JaneDoeMP>>
    /\ error = NoError
    /\ \A d \in DistrictNames : ~lowerEq(d, JaneDoeMP.constituency)
    /\ \E k \in 1..Len(allMPs) : allMPs[k] = CarneyMP

-----------------------------------------------------------------------------
(* Properties of the vacant-seat note.                                       *)

\* Where the text "\n\nNote: " starts in a body.
noteStarts(body) ==
    {p \in 1..(Len(body) - 7) : SubSeq(body, p, p + 7) = <<"\n","\n","N","o","t","e",":"," ">>}

\* What the note says of the constituency and of the postal code, and how it
\* addresses the recipient, in each language.
notePhrases(language, actualConstituency, postalCode) ==
    IF language = "fr"
    THEN [constituency |-> <<"c","i","r","c","o","n","s","c","r","i","p","t","i","o","n"," ">> \o actualConstituency,
          postalCode |-> <<" ","(","C","o","d","e"," ","p","o","s","t","a","l",":"," ">> \o postalCode \o <<")">>,
          recipient |-> <<"e","n"," ","t","a","n","t"," ","q","u","e"," ","P","r","e","m","i","e","r"," ","m","i","n","i","s","t","r","e">>]
    ELSE [constituency |-> <<"f","r","o","m"," ","t","h","e"," ">> \o actualConstituency
                               \o <<" ","c","o","n","s","t","i","t","u","e","n","c","y">>,
          postalCode |-> <<" ","(","P","o","s","t","a","l"," ","C","o","d","e",":"," ">> \o postalCode \o <<")">>,
          recipient |-> <<"a","s"," ","P","r","i","m","e"," ","M","i","n","i","s","t","e","r">>]

\* C21: the body of an opened email link ends with the vacant-seat note
\* exactly when the MP on display is a fallback result (isDefault set and
\* actualConstituency non-empty): the note is in the language of the link,
\* names the actual constituency, gives the postal code in parentheses when
\* the result has one and no parenthesis otherwise, and addresses the
\* recipient as Prime Minister; the body of a link for any other result has no
\* note and no line break.
C21_VacantSeatNote ==
    mailto # <<>> =>
        LET body == decodeURIComponent(mailto[1].body)
            language == IF mailto[1].subject = SubjectFrench THEN "fr" ELSE "en"
            other == IF language = "fr" THEN "en" ELSE "fr"
            hasCode == "postalCode" \in DOMAIN mp[1] /\ mp[1].postalCode # <<>>
        IN  IF isDefaultResult(mp) /\ "actualConstituency" \in DOMAIN mp[1]
               /\ mp[1].actualConstituency # <<>>
            THEN /\ Cardinality(noteStarts(body)) = 1
                 /\ LET start == Min(noteStarts(body))
                        note == SubSeq(body, start, Len(body))
                        said == notePhrases(language, mp[1].actualConstituency,
                                            IF hasCode THEN mp[1].postalCode ELSE <<>>)
                        unsaid == notePhrases(other, mp[1].actualConstituency, <<>>)
                    IN  /\ ~includes(SubSeq(body, 1, start - 1), <<"\n">>)
                        /\ includes(note, said.constituency)
                        /\ includes(note, said.recipient)
                        /\ ~includes(note, unsaid.recipient)
                        /\ IF hasCode THEN includes(note, said.postalCode)
                           ELSE ~includes(note, <<"(">>)
                        /\ note[Len(note)] = "."
            ELSE /\ noteStarts(body) = {}
                 /\ ~includes(body, <<"\n">>)

\* The French link of a fallback result was opened: the note is in French,
\* with the postal code of the search.
C21_Witness ==
    /\ mailto # <<>> /\ emailTemplates # <<>>
    /\ mailto[1].subject = SubjectFrench
    /\ isDefaultResult(mp)
    /\ mp[1].postalCode = BaseCode
    /\ includes(decodeURIComponent(mailto[1].body),
                notePhrases("fr", mp[1].actualConstituency, BaseCode).postalCode)

-----------------------------------------------------------------------------
(* Properties of the startup loads.                                          *)

\* C22: the roster, the templates and the protest list load independently.
\* A load that succeeds sets its own dataset to the value loaded, a load that
\* fails leaves its own dataset at its initial empty value, and neither
\* changes the other two datasets, their loads, the message on display or the
\* counter's fetches; a dataset changes only when its own load completes; and
\* whatever has happened to the others, a pending load can still succeed and
\* fail, and the counter can still be polled and fetched.
C22_LoadsIndependent ==
    [][/\ \A data \in PageRosters :
             RosterLoaded(data) =>
                /\ allMPs' = data
                /\ UNCHANGED <<emailTemplates, protests, templatesLoad, protestsLoad, error,
                               countFetches>>
       /\ \A data \in TemplateSets :
             TemplatesLoaded(data) =>
                /\ emailTemplates' = <<data>>
                /\ UNCHANGED <<allMPs, protests, rosterLoad, protestsLoad, error, countFetches>>
       /\ \A data \in ProtestFiles :
             ProtestsLoaded(data) =>
                /\ protests' = (IF "protests" \in DOMAIN data THEN data.protests ELSE <<>>)
                /\ UNCHANGED <<allMPs, emailTemplates, rosterLoad, templatesLoad, error,
                               countFetches>>
       /\ (RosterLoadFailed \/ TemplatesLoadFailed \/ ProtestsLoadFailed) =>
             UNCHANGED <<allMPs, emailTemplates, protests, error, loading, countFetches,
                         emailCount>>
       /\ rosterLoad' \in {"pending", "failed"} => allMPs' = <<>>
       /\ templatesLoad' \in {"pending", "failed"} => emailTemplates' = <<>>
       /\ protestsLoad' \in {"pending", "failed"} => protests' = <<>>
       /\ rosterLoad' = rosterLoad => allMPs' = allMPs
       /\ templatesLoad' = templatesLoad => emailTemplates' = emailTemplates
       /\ protestsLoad' = protestsLoad => protests' = protests
       /\ rosterLoad = "pending" =>
             (ENABLED RosterLoadFailed) /\ \A data \in PageRosters : ENABLED RosterLoaded(data)
       /\ templatesLoad = "pending" =>
             (ENABLED TemplatesLoadFailed)
             /\ \A data \in TemplateSets : ENABLED TemplatesLoaded(data)
       /\ protestsLoad = "pending" =>
             (ENABLED ProtestsLoadFailed)
             /\ \A data \in ProtestFiles : ENABLED ProtestsLoaded(data)
       /\ countFetches > 0 => ENABLED EmailCountFailed
       /\ countFetches < MaxCountFetches => ENABLED PollTick]_vars

\* The roster's load failed first; the templates, the protest list and the
\* counter were loaded after it, and a message is on display.
C22_Witness ==
    /\ rosterLoad = "failed" /\ allMPs = <<>>
    /\ templatesLoad = "done" /\ emailTemplates # <<>>
    /\ protestsLoad = "done" /\ protests # <<>>
    /\ emailCount = <<2>>
    /\ error = EmptyQueryError

-----------------------------------------------------------------------------
(* Properties of a refused submit and of the roster a search runs on.        *)

\* A submit of a query that validation refuses.
SubmitRefused ==
    /\ ClickFindMyMP \/ handleKeyPress("Enter")
    /\ Len(trim(searchInput)) < 2

\* C23: a submit refused by validation changes the message and nothing else:
\* mp, suggestions, loading and usedPostalCode (and the input, the roster and
\* the pending searches) are as the previous search left them, so a result or
\* a suggestion list stays on display with the validation message.
C23_RefusedSubmitKeepsResult ==
    [][SubmitRefused =>
          /\ error' \in {EmptyQueryError, ShortQueryError}
          /\ UNCHANGED <<mp, suggestions, loading, usedPostalCode>>
          /\ UNCHANGED <<searchInput, allMPs, inflight>>
          /\ mp # <<>> => mp' # <<>> /\ error' # NoError
          /\ suggestions # <<>> => suggestions' # <<>> /\ error' # NoError]_vars

\* The result of a postal-code search is on display with the message for a
\* query of one character.
C23_Witness ==
    /\ mp # <<>> /\ usedPostalCode /\ ~loading
    /\ error = ShortQueryError
    /\ Len(trim(searchInput)) = 1

\* C24: a search runs on the roster of the moment it was submitted.  The
\* request a submit adds holds the roster of that moment, a load of the roster
\* leaves pending requests as they are, and a search submitted on the empty
\* roster ends with no result, no suggestions, no tracking event and an error
\* message, also when the roster has been loaded in the meantime.
C24_RosterOfSubmit ==
    [][/\ ((ClickFindMyMP \/ handleKeyPress("Enter")) /\ inflight' # inflight) =>
             /\ Len(inflight') = Len(inflight) + 1
             /\ inflight'[Len(inflight')].roster = allMPs
       /\ allMPs' # allMPs => inflight' = inflight
       /\ (SearchEnds /\ \A i \in 1..Len(inflight) : inflight[i].roster = <<>>) =>
             /\ mp' = <<>>
             /\ suggestions' = <<>>
             /\ error' # NoError
             /\ tracked' = <<>>
             /\ ~loading']_vars

\* The roster, with a row the query matches, arrived while a text search
\* submitted on the empty roster is pending.
C24_Witness ==
    /\ loading /\ Len(inflight) = 1
    /\ inflight[1].kind = "timer"
    /\ inflight[1].roster = <<>>
    /\ matchingRows(allMPs, inflight[1].query) # {}

====
